---- MODULE Spec2Model ----
(***************************************************************************)
(* Test-case generation pipeline: record normalizer, response parsers,     *)
(* the refine / add-more / generate routes and the result page that owns   *)
(* the working set.                                                        *)
(*                                                                         *)
(* Strings are TLA+ strings (so `TC-${...padStart(3,"0")}` is computed by  *)
(* concatenation).  A Partial<TestCase> is a record whose DOMAIN is the    *)
(* set of fields that are present.  tc.steps of a partial record is a      *)
(* tagged JSON value [isArray, value]; a normalized TestCase carries the   *)
(* plain sequence.                                                         *)
(***************************************************************************)
EXTENDS Integers, Sequences, FiniteSets, TLC

(***************************************************************************)
(* Bounds of the model.                                                    *)
(***************************************************************************)
MaxSet == 3          \* largest working set the result page grows to
MaxBatch == 3        \* most elements in one backend array
MaxIndex == 2        \* largest position index given to normalizeTestCase directly
MaxInvocations == 2  \* most generate invocations made through one dispatcher
MaxNavCalls == 4     \* most calls made to the navigation store
MaxTextLen == 9      \* longest text given to estimateTokens directly
MaxSubmits == 3      \* submissions of the upload form
MaxPageOps == 3      \* handler invocations and saved edits on the result page

(***************************************************************************)
(* src/types/TestCase.ts                                                   *)
(***************************************************************************)
TestCaseFields ==
  {"testId", "title", "description", "preconditions", "steps",
   "expectedResult", "priority", "type"}

TestCasePriority == {"High", "Medium", "Low"}

TestCaseType == {"Functional", "Negative", "Edge"}

(***************************************************************************)
(* JavaScript helpers.                                                     *)
(***************************************************************************)
\* String.prototype.padStart(targetLength, padString) for a 1-char padString
RECURSIVE padStart(_, _, _)
padStart(s, targetLength, padString) ==
  IF Len(s) >= targetLength THEN s
  ELSE padStart(padString \o s, targetLength, padString)

\* `tc.f || d` for a string-valued field: absent (undefined) and "" are falsy
OrDefault(tc, f, d) ==
  IF f \in DOMAIN tc /\ tc[f] # "" THEN tc[f] ELSE d

\* `TC-${String(n).padStart(3, "0")}`
FormatTestId(n) == "TC-" \o padStart(ToString(n), 3, "0")

(***************************************************************************)
(* src/lib/utils/normalizeTestCase.ts : normalizeTestCase                  *)
(* existingIds is optional: NoIds stands for `undefined`, otherwise        *)
(* [supplied |-> TRUE, ids |-> S].  The Set is mutated by the call, so the *)
(* operator returns the record together with the Set after the call.       *)
(***************************************************************************)
NoIds == [supplied |-> FALSE, ids |-> {}]

SomeIds(S) == [supplied |-> TRUE, ids |-> S]

\* the while loop of lines 12-16
RECURSIVE ProbePreIncrement(_, _, _)
ProbePreIncrement(testId, counter, ids) ==
  IF testId \in ids
    THEN ProbePreIncrement(FormatTestId(counter + 1), counter + 1, ids)
    ELSE testId

RECURSIVE Probe(_, _, _)
Probe(testId, counter, ids) ==
  IF testId \in ids
    THEN Probe(FormatTestId(counter), counter + 1, ids)
    ELSE testId

\* lines 8-18: the identifier and the Set after the call
AssignTestIdNoClaim(tc, index, existingIds) ==
  LET initial == OrDefault(tc, "testId", FormatTestId(index + 1))
  IN  IF existingIds.supplied
        THEN [testId |-> Probe(initial, index + 1, existingIds.ids),
              existingIds |-> existingIds]
        ELSE [testId |-> initial, existingIds |-> existingIds]

AssignTestId(tc, index, existingIds) ==
  LET initial == OrDefault(tc, "testId", FormatTestId(index + 1))
  IN  IF existingIds.supplied
        THEN LET testId == Probe(initial, index + 1, existingIds.ids)
             IN  [testId |-> testId,
                  existingIds |-> SomeIds(existingIds.ids \cup {testId})]
        ELSE [testId |-> initial, existingIds |-> existingIds]

\* line 25: Array.isArray(tc.steps) ? tc.steps : []
StepsOrEmpty(tc) ==
  IF "steps" \in DOMAIN tc /\ tc.steps.isArray THEN tc.steps.value ELSE <<>>

\* line 22
TitleOrDefaultOffByOne(tc, index) ==
  OrDefault(tc, "title", "Test Case " \o ToString(index))

TitleOrDefault(tc, index) ==
  OrDefault(tc, "title", "Test Case " \o ToString(index + 1))

normalizeTestCase(tc, index, existingIds) ==
  LET a == AssignTestId(tc, index, existingIds)
  IN  [tc |-> [testId |-> a.testId,
               title |-> TitleOrDefault(tc, index),
               description |-> OrDefault(tc, "description", ""),
               preconditions |-> OrDefault(tc, "preconditions", ""),
               steps |-> StepsOrEmpty(tc),
               expectedResult |-> OrDefault(tc, "expectedResult", ""),
               priority |-> OrDefault(tc, "priority", "Medium"),
               type |-> OrDefault(tc, "type", "Functional")],
       existingIds |-> a.existingIds]

(***************************************************************************)
(* src/lib/utils/normalizeTestCase.ts : normalizeTestCases                 *)
(* testCases.map((tc, index) => normalizeTestCase(tc,                      *)
(*     existingTestCases.length + index + 1, existingIds))                 *)
(***************************************************************************)
IdsOf(tcs) == {tcs[i].testId : i \in DOMAIN tcs}

RECURSIVE MapNormalize(_, _, _, _)
MapNormalize(testCases, index, base, existingIds) ==
  IF index >= Len(testCases) THEN <<>>
  ELSE LET r == normalizeTestCase(testCases[index + 1], base + index + 1, existingIds)
       IN  <<r.tc>> \o MapNormalize(testCases, index + 1, base, r.existingIds)

normalizeTestCases(testCases, existingTestCases) ==
  MapNormalize(testCases, 0, Len(existingTestCases), SomeIds(IdsOf(existingTestCases)))

(***************************************************************************)
(* src/lib/tokenCounter.ts : estimateTokens                                *)
(***************************************************************************)
estimateTokensFloor(text) ==
  IF text = "" THEN 0 ELSE Len(text) \div 4

estimateTokens(text) ==
  IF text = "" THEN 0 ELSE (Len(text) + 3) \div 4     \* Math.ceil(length / 4)

(***************************************************************************)
(* JSON.stringify(testCases, null, 2) of normalized records, whose keys    *)
(* are in the insertion order of normalizeTestCase's object literal.  The  *)
(* strings of the model contain no character that JSON escapes.            *)
(***************************************************************************)
Quote(s) == "\"" \o s \o "\""

RECURSIVE JoinLines(_, _)
JoinLines(lines, indent) ==
  IF lines = <<>> THEN ""
  ELSE indent \o Head(lines) \o
       (IF Len(lines) = 1 THEN "\n" ELSE ",\n" \o JoinLines(Tail(lines), indent))

JsonArray(elems, indent) ==
  IF elems = <<>> THEN "[]"
  ELSE "[\n" \o JoinLines(elems, indent \o "  ") \o indent \o "]"

JsonTestCase(tc) ==
  "{\n" \o
  JoinLines(<<"\"testId\": " \o Quote(tc.testId),
              "\"title\": " \o Quote(tc.title),
              "\"description\": " \o Quote(tc.description),
              "\"preconditions\": " \o Quote(tc.preconditions),
              "\"steps\": " \o
                 JsonArray([i \in DOMAIN tc.steps |-> Quote(tc.steps[i])], "    "),
              "\"expectedResult\": " \o Quote(tc.expectedResult),
              "\"priority\": " \o Quote(tc.priority),
              "\"type\": " \o Quote(tc.type)>>, "    ") \o
  "  }"

JsonStringify(tcs) == JsonArray([i \in DOMAIN tcs |-> JsonTestCase(tcs[i])], "")

\* String.prototype.substring(0, n)
Substring0(s, n) == IF Len(s) <= n THEN s ELSE SubSeq(s, 1, n)

\* String.prototype.trim()
IsSpace(s, i) == SubSeq(s, i, i) \in {" ", "\n", "\t", "\r"}

RECURSIVE TrimStart(_)
TrimStart(s) ==
  IF s # "" /\ IsSpace(s, 1) THEN TrimStart(SubSeq(s, 2, Len(s))) ELSE s

RECURSIVE TrimEnd(_)
TrimEnd(s) ==
  IF s # "" /\ IsSpace(s, Len(s)) THEN TrimEnd(SubSeq(s, 1, Len(s) - 1)) ELSE s

Trim(s) == TrimEnd(TrimStart(s))

\* String.prototype.startsWith / includes / indexOf (0 when absent)
StartsWith(s, prefix) ==
  Len(prefix) <= Len(s) /\ SubSeq(s, 1, Len(prefix)) = prefix

OccursAt(s, sub, i) ==
  i >= 1 /\ i + Len(sub) - 1 <= Len(s) /\ SubSeq(s, i, i + Len(sub) - 1) = sub

Includes(s, sub) == \E i \in 1..(Len(s) - Len(sub) + 1) : OccursAt(s, sub, i)

IndexOf(s, sub) ==
  IF Includes(s, sub)
    THEN CHOOSE i \in 1..(Len(s) - Len(sub) + 1) :
           /\ OccursAt(s, sub, i)
           /\ \A j \in 1..(i - 1) : ~OccursAt(s, sub, j)
    ELSE 0

\* s.replace(sub, by): the first occurrence only
ReplaceFirst(s, sub, by) ==
  LET i == IndexOf(s, sub)
  IN  IF i = 0 THEN s
      ELSE SubSeq(s, 1, i - 1) \o by \o SubSeq(s, i + Len(sub), Len(s))

\* s.split(sep)[0]
SplitHead(s, sep) ==
  LET i == IndexOf(s, sep) IN IF i = 0 THEN s ELSE SubSeq(s, 1, i - 1)

RECURSIVE Repeat(_, _)
Repeat(s, doublings) == IF doublings = 0 THEN s ELSE Repeat(s \o s, doublings - 1)

(***************************************************************************)
(* Backend output.  A raw text is abstracted to what the parsers depend    *)
(* on:                                                                     *)
(*   form   - "object" (one JSON object), "array" (JSON array of objects), *)
(*            "scalar" (valid JSON that is neither), or "fragments" (two   *)
(*            or more objects separated by commas without the brackets);   *)
(*   wrap   - "none", "fence" (```json ... ```), or "prose" (words without *)
(*            braces around the JSON);                                     *)
(*   defect - "none", "missingComma" (the preconditions/steps defect) or   *)
(*            "syntax" (any other syntax error inside the objects);        *)
(*   items  - the objects, as partial records.  An array element that is   *)
(*            not an object is the record of its readable properties: none *)
(*            for a number (JsNumber), while reading a property of null    *)
(*            (JsNull) throws a TypeError.  The pseudo-field `typeof`      *)
(*            tells them from objects.                                     *)
(***************************************************************************)
JsNumber == [typeof |-> "number"]

JsNull == [typeof |-> "null"]

\* normalizeTestCase line 8 reads tc.testId: a TypeError when tc is null
NormalizeThrows(testCases) == \E i \in DOMAIN testCases : testCases[i] = JsNull

TypeErrorMessage == "Cannot read properties of null (reading 'testId')"

Text(form, wrap, defect, items) ==
  [form |-> form, wrap |-> wrap, defect |-> defect, items |-> items]

NoText == Text("scalar", "none", "none", <<>>)

(***************************************************************************)
(* src/lib/utils/normalizeTestCase.ts lines 50-97 (parseLLMResponse)       *)
(***************************************************************************)
\* cleanLLMJsonResponse: trim, strip the fence markers, repair the comma
cleanLLMJsonResponse(text) ==
  [text EXCEPT !.wrap = IF @ = "fence" THEN "none" ELSE @,
               !.defect = IF @ = "missingComma" THEN "none" ELSE @]

\* JSON.parse: throws a SyntaxError unless the whole text is one JSON value
JsonParses(text) ==
  text.wrap = "none" /\ text.defect = "none" /\ text.form # "fragments"

SyntaxErrorMessage == "Unexpected token in JSON"

parseTestCasesFromLLM(generatedText) ==
  LET cleanedText == cleanLLMJsonResponse(generatedText)
  IN  IF ~JsonParses(cleanedText)
        THEN [ok |-> FALSE, value |-> <<>>, error |-> SyntaxErrorMessage]
      ELSE IF cleanedText.form # "array"
        THEN [ok |-> FALSE, value |-> <<>>,
              error |-> "LLM response is not a valid array of test cases"]
      ELSE [ok |-> TRUE, value |-> cleanedText.items, error |-> ""]

parseTestCaseFromLLM(generatedText) ==
  LET cleanedText == cleanLLMJsonResponse(generatedText)
  IN  IF ~JsonParses(cleanedText)
        THEN [ok |-> FALSE, value |-> <<>>, error |-> SyntaxErrorMessage]
      ELSE IF cleanedText.form = "array"
        THEN [ok |-> FALSE, value |-> <<>>,
              error |-> "Expected single test case object, got array"]
      ELSE IF cleanedText.form # "object"
        THEN [ok |-> FALSE, value |-> <<>>,
              error |-> "LLM response is not a valid test case object"]
      ELSE [ok |-> TRUE, value |-> cleanedText.items, error |-> ""]

(***************************************************************************)
(* src/lib/utils/normalizeTestCase.ts lines 50-78 on the characters of the *)
(* text (the operators above work on the abstracted text).                 *)
(***************************************************************************)
\* the fence marker of lines 54-56, three grave accents; a string of TLA+
\* cannot hold that character and the tilde, which no text of the model
\* holds otherwise, stands for it
Fence == "~~~"

EndsWith(s, suffix) ==
  Len(suffix) <= Len(s) /\ SubSeq(s, Len(s) - Len(suffix) + 1, Len(s)) = suffix

\* `json` under the i flag
JsonTagVariantsLowerCase == {"json"}

JsonTagVariants ==
  {a \o b \o c \o d : a \in {"j", "J"}, b \in {"s", "S"}, c \in {"o", "O"},
                      d \in {"n", "N"}}

\* line 55: the replace of /^ fence (?:json)?\s*/i by "" in a text that
\* starts with the fence
StripOpeningFence(s) ==
  LET rest == SubSeq(s, Len(Fence) + 1, Len(s))
      afterTag == IF Len(rest) >= 4 /\ SubSeq(rest, 1, 4) \in JsonTagVariants
                    THEN SubSeq(rest, 5, Len(rest))
                    ELSE rest
  IN  TrimStart(afterTag)

\* line 56: the replace of /\s* fence $/i by ""
StripClosingFence(s) ==
  IF EndsWith(s, Fence) THEN TrimEnd(SubSeq(s, 1, Len(s) - Len(Fence))) ELSE s

\* the position of the first character at or after i that is not whitespace
RECURSIVE SkipSpace(_, _)
SkipSpace(s, i) == IF i <= Len(s) /\ IsSpace(s, i) THEN SkipSpace(s, i + 1) ELSE i

\* the position of the first `"` at or after i, 0 when there is none
RECURSIVE NextQuote(_, _)
NextQuote(s, i) ==
  IF i > Len(s) THEN 0
  ELSE IF SubSeq(s, i, i) = "\"" THEN i
  ELSE NextQuote(s, i + 1)

\* one match of /"preconditions":\s*"([^"]*)"\s*"steps"/ starting at i
MatchAt(s, i) ==
  LET open == SkipSpace(s, i + Len("\"preconditions\":"))
      close == IF open <= Len(s) /\ SubSeq(s, open, open) = "\""
                 THEN NextQuote(s, open + 1) ELSE 0
      steps == SkipSpace(s, close + 1)
  IN  IF /\ OccursAt(s, "\"preconditions\":", i)
         /\ close # 0
         /\ OccursAt(s, "\"steps\"", steps)
        THEN [found |-> TRUE, x |-> SubSeq(s, open + 1, close - 1),
              end |-> steps + Len("\"steps\"") - 1]
        ELSE [found |-> FALSE, x |-> "", end |-> 0]

\* line 60: the global replace, scanning from position i
RECURSIVE RepairFrom(_, _)
RepairFrom(s, i) ==
  LET starts == {p \in i..Len(s) : OccursAt(s, "\"preconditions\":", p)}
  IN  IF starts = {} THEN SubSeq(s, i, Len(s))
      ELSE LET p == CHOOSE q \in starts : \A r \in starts : q <= r
               m == MatchAt(s, p)
           IN  IF m.found
                 THEN SubSeq(s, i, p - 1) \o
                      "\"preconditions\": \"" \o m.x \o "\", \"steps\"" \o
                      RepairFrom(s, m.end + 1)
                 ELSE SubSeq(s, i, p) \o RepairFrom(s, p + 1)

RepairMissingComma(s) == RepairFrom(s, 1)

\* lines 51-57: trim, then the two replaces when the text starts with the
\* fence
Unfence(text) ==
  LET trimmed == Trim(text)
  IN  IF StartsWith(trimmed, Fence)
        THEN StripClosingFence(StripOpeningFence(trimmed))
        ELSE trimmed

\* cleanLLMJsonResponse, lines 50-63
CleanText(text) == RepairMissingComma(Unfence(text))

(***************************************************************************)
(* The texts of the backend at the level of characters: optional           *)
(* whitespace and fence around a JSON array of objects (or one bare        *)
(* object), each object with or without the comma between its              *)
(* "preconditions" value and its "steps" key.                              *)
(***************************************************************************)
\* a string literal of JSON: `"` and `\` are escaped
RECURSIVE EscapeJson(_)
EscapeJson(s) ==
  IF s = "" THEN ""
  ELSE LET c == SubSeq(s, 1, 1)
       IN  (IF c \in {"\"", "\\"} THEN "\\" \o c ELSE c) \o
           EscapeJson(SubSeq(s, 2, Len(s)))

JsonString(s) == "\"" \o EscapeJson(s) \o "\""

RenderObject(rec, comma, gap) ==
  "{\"title\": " \o JsonString(rec.title) \o
  ", \"preconditions\": " \o JsonString(rec.preconditions) \o
  (IF comma THEN "," ELSE "") \o gap \o "\"steps\": []}"

RECURSIVE RenderObjects(_, _, _, _)
RenderObjects(records, comma, gap, i) ==
  IF i > Len(records) THEN ""
  ELSE (IF i > 1 THEN ", " ELSE "") \o RenderObject(records[i], comma[i], gap[i]) \o
       RenderObjects(records, comma, gap, i + 1)

\* the JSON text: the array, or the one object without brackets
RenderBody(records, comma, gap, bare) ==
  IF bare THEN RenderObject(records[1], comma[1], gap[1])
  ELSE "[" \o RenderObjects(records, comma, gap, 1) \o "]"

Body(t) == RenderBody(t.records, t.comma, [i \in DOMAIN t.records |-> t.gap], t.bare)

RenderLlmText(t) ==
  t.lead \o
  (IF t.fenced THEN Fence \o t.tag \o t.afterOpen ELSE "") \o
  Body(t) \o
  (IF t.closed THEN t.beforeClose \o Fence ELSE "") \o
  t.trail

TextRecord(title, preconditions) ==
  [title |-> title, preconditions |-> preconditions,
   steps |-> [isArray |-> TRUE, value |-> <<>>]]

RecPlain == TextRecord("Login works", "User exists")

RecQuoted == TextRecord("Greeting", "Banner says \"hi\"")

RecEmpty == TextRecord("Logout works", "")

TextRecordSeqs ==
  {<<>>, <<RecPlain>>, <<RecQuoted>>, <<RecEmpty>>, <<RecPlain, RecEmpty>>,
   <<RecQuoted, RecPlain>>, <<RecPlain, RecQuoted>>}

\* whitespace between the "preconditions" value and the "steps" key
Gaps == {"", " ", "\n  "}

\* the texts of the model that are JSON, with the value JSON.parse gives
ValidTexts ==
  UNION {{[text |-> RenderBody(recs, [i \in DOMAIN recs |-> TRUE], gap, bare),
           isArray |-> ~bare,
           value |-> IF bare THEN recs[1] ELSE recs] :
            gap \in [DOMAIN recs -> Gaps], bare \in {b \in BOOLEAN : b => Len(recs) = 1}} :
         recs \in TextRecordSeqs}

\* JSON.parse, which allows whitespace around the value
JsonParseText(text) ==
  LET found == {v \in ValidTexts : v.text = Trim(text)}
  IN  IF found = {} THEN [ok |-> FALSE, isArray |-> FALSE, value |-> <<>>]
      ELSE LET v == CHOOSE w \in found : TRUE
           IN  [ok |-> TRUE, isArray |-> v.isArray, value |-> v.value]

\* parseTestCasesFromLLM, lines 69-78, on the characters
ParseTestCasesText(text) ==
  LET p == JsonParseText(CleanText(text))
  IN  IF ~p.ok
        THEN [ok |-> FALSE, value |-> <<>>, error |-> SyntaxErrorMessage]
      ELSE IF ~p.isArray
        THEN [ok |-> FALSE, value |-> <<>>,
              error |-> "LLM response is not a valid array of test cases"]
      ELSE [ok |-> TRUE, value |-> p.value, error |-> ""]

(***************************************************************************)
(* src/app/api/refine-test-case/route.ts lines 113-116:                    *)
(* cleanedText.match(/\{[\s\S]*\}/) keeps the text from the first "{" to   *)
(* the last "}".                                                           *)
(***************************************************************************)
ExtractJsonObject(text) ==
  IF text.items = <<>> THEN text                       \* no braces: no match
  ELSE IF Len(text.items) = 1
    THEN Text("object", "none", text.defect, text.items)
  ELSE Text("fragments", "none", text.defect, text.items)

(***************************************************************************)
(* src/lib/prompt.ts : generateAddMoreTestCasesPrompt, lines 415-423 and   *)
(* the interpolations of the user prompt.  existingTestCases is either the *)
(* array or a string (summary); the fixed words of the templates are left  *)
(* out, the interpolated parts are kept.                                   *)
(***************************************************************************)
AsList(tcs) == [isString |-> FALSE, text |-> "", list |-> tcs]

AsString(s) == [isString |-> TRUE, text |-> s, list |-> <<>>]

ExistingTestCasesText(existingTestCases) ==
  IF existingTestCases.isString
    THEN "EXISTING TEST CASES SUMMARY:\n" \o existingTestCases.text \o
         "\n\nIMPORTANT: The above is a summary. Generate test cases that are clearly different from what's described."
    ELSE "EXISTING TEST CASES (" \o ToString(Len(existingTestCases.list)) \o
         " total):\n" \o JsonStringify(existingTestCases.list) \o
         "\n\nIMPORTANT: Review these carefully and generate test cases that are DISTINCTLY different."

generateAddMoreTestCasesPrompt(prdSummary, existingTestCases, followUpPrompt, count) ==
  [system |-> "addMoreTestCases",
   user |-> [count |-> count,
             prdSummary |-> prdSummary,
             existingTestCasesText |-> ExistingTestCasesText(existingTestCases),
             followUpPrompt |-> followUpPrompt]]

NoPrompt ==
  [system |-> "",
   user |-> [count |-> 0, prdSummary |-> "", existingTestCasesText |-> "",
             followUpPrompt |-> ""]]

(***************************************************************************)
(* src/app/api/add-more-cases/route.ts                                     *)
(***************************************************************************)
TOKEN_LIMIT_THRESHOLD == 5000

\* line 133
ExceedsThresholdInclusive(existingTokens) == existingTokens >= TOKEN_LIMIT_THRESHOLD

ExceedsThreshold(existingTokens) == existingTokens > TOKEN_LIMIT_THRESHOLD

\* the user prompt of the compression call with the serialization sent whole
SummarizeUserPromptUncut(existingTestCases) ==
  "Summarize these test cases to help prevent generating duplicates:\n\n" \o
  JsonStringify(existingTestCases)

\* summarizeExistingTestCases lines 25 and 37-40: the user prompt of the
\* compression call holds the first 10000 characters of the serialization,
\* followed by "..." when the serialization is longer
SummarizeUserPrompt(existingTestCases) ==
  LET testCasesJson == JsonStringify(existingTestCases)
  IN  "Summarize these test cases to help prevent generating duplicates:\n\n" \o
      Substring0(testCasesJson, 10000) \o
      (IF Len(testCasesJson) > 10000 THEN "..." ELSE "")

\* summarizeExistingTestCases, line 49: the fallback when the call fails
SummaryFallbackPromptCut(existingTestCases) ==
  "Summary of " \o ToString(Len(existingTestCases)) \o " existing test cases:\n" \o
  Substring0(JsonStringify(existingTestCases), 10000) \o "..."

SummaryFallback(existingTestCases) ==
  "Summary of " \o ToString(Len(existingTestCases)) \o " existing test cases:\n" \o
  Substring0(JsonStringify(existingTestCases), 2000) \o "..."

(***************************************************************************)
(* src/app/api/refine-test-case/route.ts line 107                          *)
(***************************************************************************)
maxAttemptsThree == 2 + 1

maxAttempts == 2

(***************************************************************************)
(* Providers.  A ProviderConfig is a record whose DOMAIN holds `provider`  *)
(* and the optional fields that are present.                               *)
(***************************************************************************)
ProviderType == {"openai", "azure", "ollama", "gemini"}

ConfigFields == {"apiKey", "model", "endpoint", "deployment", "apiVersion", "baseUrl"}

\* `!config.f`: undefined and "" are falsy
Missing(config, f) == f \notin DOMAIN config \/ config[f] = ""

\* a default parameter value replaces `undefined` only
ParamOrDefault(config, f, d) == IF f \in DOMAIN config THEN config[f] ELSE d

\* `config.f || d`
ValueOrDefault(config, f, d) == IF Missing(config, f) THEN d ELSE config[f]

NoProvider ==
  [kind |-> "none", apiKey |-> "", model |-> "", endpoint |-> "",
   deployment |-> "", apiVersion |-> "", baseUrl |-> "",
   llm |-> FALSE, actualModel |-> "", modelDetectionPromise |-> FALSE]

\* src/unnamed/part_005 lines 91-96: the client object is built at creation
openaiProvider(apiKey, model) ==
  [NoProvider EXCEPT !.kind = "openai", !.apiKey = apiKey, !.model = model,
                     !.llm = TRUE]

\* src/lib/providers/azure.ts lines 41-55
azureProvider(apiKey, endpoint, deployment, apiVersion) ==
  [NoProvider EXCEPT !.kind = "azure", !.apiKey = apiKey, !.endpoint = endpoint,
                     !.deployment = deployment, !.apiVersion = apiVersion,
                     !.llm = TRUE]

\* src/unnamed/part_005 lines 11-19
ollamaProvider(model, baseUrl) ==
  [NoProvider EXCEPT !.kind = "ollama", !.model = model, !.baseUrl = baseUrl,
                     !.llm = TRUE]

\* src/unnamed/part_006 lines 15-18: llm = null, actualModel = model,
\* modelDetectionPromise = null
geminiProvider(apiKey, model) ==
  [NoProvider EXCEPT !.kind = "gemini", !.apiKey = apiKey, !.model = model,
                     !.actualModel = model]

Created(instance) == [ok |-> TRUE, error |-> "", instance |-> instance]

Thrown(error) == [ok |-> FALSE, error |-> error, instance |-> NoProvider]

\* src/unnamed/part_006 lines 210-241
createProviderLaxAzure(config) ==
  CASE config.provider = "openai" ->
         IF Missing(config, "apiKey") THEN Thrown("OpenAI API key is required")
         ELSE Created(openaiProvider(config.apiKey,
                                     ParamOrDefault(config, "model", "gpt-4o-mini")))
    [] config.provider = "azure" ->
         IF \/ Missing(config, "apiKey") \/ Missing(config, "endpoint")
            \/ Missing(config, "deployment")
           THEN Thrown("Azure OpenAI requires apiKey, endpoint, deployment, and apiVersion")
           ELSE Created(azureProvider(config.apiKey, config.endpoint,
                                      config.deployment,
                                      ParamOrDefault(config, "apiVersion", "")))
    [] config.provider = "ollama" ->
         Created(ollamaProvider(ParamOrDefault(config, "model", "llama3.1"),
                                ParamOrDefault(config, "baseUrl",
                                               "http://localhost:11434")))
    [] config.provider = "gemini" ->
         IF Missing(config, "apiKey") THEN Thrown("Google Gemini API key is required")
         ELSE Created(geminiProvider(config.apiKey,
                                     ParamOrDefault(config, "model",
                                                    "gemini-1.5-flash-latest")))
    [] OTHER -> Thrown("Unsupported provider: " \o config.provider)

createProvider(config) ==
  CASE config.provider = "openai" ->
         IF Missing(config, "apiKey") THEN Thrown("OpenAI API key is required")
         ELSE Created(openaiProvider(config.apiKey,
                                     ParamOrDefault(config, "model", "gpt-4o-mini")))
    [] config.provider = "azure" ->
         IF \/ Missing(config, "apiKey") \/ Missing(config, "endpoint")
            \/ Missing(config, "deployment") \/ Missing(config, "apiVersion")
           THEN Thrown("Azure OpenAI requires apiKey, endpoint, deployment, and apiVersion")
           ELSE Created(azureProvider(config.apiKey, config.endpoint,
                                      config.deployment, config.apiVersion))
    [] config.provider = "ollama" ->
         Created(ollamaProvider(ParamOrDefault(config, "model", "llama3.1"),
                                ParamOrDefault(config, "baseUrl",
                                               "http://localhost:11434")))
    [] config.provider = "gemini" ->
         IF Missing(config, "apiKey") THEN Thrown("Google Gemini API key is required")
         ELSE Created(geminiProvider(config.apiKey,
                                     ParamOrDefault(config, "model",
                                                    "gemini-1.5-flash-latest")))
    [] OTHER -> Thrown("Unsupported provider: " \o config.provider)

(***************************************************************************)
(* src/unnamed/part_006 lines 96-185 (geminiUtils): model discovery.       *)
(***************************************************************************)
\* the model names of the model, in the order Array.prototype.sort() gives
SortedModelNames ==
  <<"embedding-001", "gemini-1.0-pro-latest", "gemini-1.5-flash-002",
    "gemini-1.5-flash-latest", "gemini-1.5-pro-002", "gemini-1.5-pro-latest",
    "gemini-pro">>

Sort(names) ==
  LET In(n) == \E i \in DOMAIN names : names[i] = n
  IN  SelectSeq(SortedModelNames, In)

\* Array.prototype.find
Find(list, Test(_)) ==
  IF \E i \in DOMAIN list : Test(list[i])
    THEN [found |-> TRUE,
          value |-> list[CHOOSE i \in DOMAIN list :
                           Test(list[i]) /\ \A j \in 1..(i - 1) : ~Test(list[j])]]
    ELSE [found |-> FALSE, value |-> ""]

\* the answer to the request of line 99: the fetch throws, the status is not
\* ok, or a body arrives whose `models` is an array (hasModels) or not
FetchThrows == [kind |-> "throws", hasModels |-> FALSE, models |-> <<>>]

NotOk == [kind |-> "notOk", hasModels |-> FALSE, models |-> <<>>]

ModelsBody(hasModels, models) ==
  [kind |-> "ok", hasModels |-> hasModels, models |-> models]

ModelEntry(name, methods) == [name |-> name, supportedGenerationMethods |-> methods]

\* lines 96-136
listAvailableGeminiModels(response) ==
  IF response.kind # "ok"
    THEN <<"gemini-1.5-flash-latest", "gemini-1.5-pro-latest",
           "gemini-1.0-pro-latest", "gemini-pro">>
  ELSE IF ~response.hasModels THEN <<>>
  ELSE LET Supported(m) ==
             /\ "generateContent" \in m.supportedGenerationMethods
             /\ ReplaceFirst(m.name, "models/", "") # ""
           kept == SelectSeq(response.models, Supported)
       IN  Sort([i \in DOMAIN kept |-> ReplaceFirst(kept[i].name, "models/", "")])

\* lines 144-185
findAvailableGeminiModel(response, preferredModel) ==
  LET availableModels == listAvailableGeminiModels(response)
      In(list, n) == \E i \in DOMAIN list : list[i] = n
      Pattern(m) ==
        \/ StartsWith(m, SplitHead(preferredModel, "-latest"))
        \/ Includes(m, ReplaceFirst(preferredModel, "-latest", ""))
      Flash(m) == Includes(m, "flash")
      patternMatch == Find(availableModels, Pattern)
      flashModel == Find(availableModels, Flash)
  IN  IF availableModels = <<>>
        THEN IF preferredModel # "" THEN preferredModel ELSE "gemini-1.5-flash-latest"
      ELSE IF preferredModel # "" /\ In(availableModels, preferredModel)
        THEN preferredModel
      ELSE IF preferredModel # "" /\ patternMatch.found THEN patternMatch.value
      ELSE IF flashModel.found THEN flashModel.value
      ELSE availableModels[1]

\* an outbound network request
Request(api, model) == [api |-> api, model |-> model]

\* src/unnamed/part_004 lines 39-74: the validation of callLLMClient and the
\* request that callOpenAI / callGemini / callOllama then issue
callLLMClient(config) ==
  CASE config.provider = "openai" ->
         IF Missing(config, "apiKey")
           THEN [ok |-> FALSE, error |-> "OpenAI API key is required",
                 request |-> Request("", "")]
           ELSE [ok |-> TRUE, error |-> "",
                 request |-> Request("openai:chat/completions",
                                     ValueOrDefault(config, "model", "gpt-4o-mini"))]
    [] config.provider = "gemini" ->
         IF Missing(config, "apiKey")
           THEN [ok |-> FALSE, error |-> "Gemini API key is required",
                 request |-> Request("", "")]
           ELSE [ok |-> TRUE, error |-> "",
                 request |-> Request("gemini:generateContent",
                                     ValueOrDefault(config, "model",
                                                    "gemini-1.5-flash-latest"))]
    [] config.provider = "ollama" ->
         IF Missing(config, "baseUrl")
           THEN [ok |-> FALSE, error |-> "Ollama base URL is required",
                 request |-> Request("", "")]
           ELSE [ok |-> TRUE, error |-> "",
                 request |-> Request("ollama:api/generate",
                                     ValueOrDefault(config, "model", "llama3.1"))]
    [] config.provider = "azure" ->
         [ok |-> FALSE,
          error |-> "Azure OpenAI requires server-side calls due to CORS restrictions. Please use OpenAI provider or self-host this application.",
          request |-> Request("", "")]
    [] OTHER ->
         [ok |-> FALSE, error |-> "Unsupported provider: " \o config.provider,
          request |-> Request("", "")]

(***************************************************************************)
(* Inputs of the model: what the backend may answer and what the user may  *)
(* type.                                                                   *)
(***************************************************************************)
LongText == Repeat("0123456789", 11)      \* 20480 characters

ObjPlain == [title |-> "Login works"]

ObjTc2 ==
  [testId |-> "TC-002", title |-> "Logout works", priority |-> "High",
   type |-> "Negative"]

ObjLong == [title |-> "Bulk import", description |-> LongText]

\* a description sized so that the serialized one-record set has exactly
\* 20000 characters, i.e. an estimate of exactly TOKEN_LIMIT_THRESHOLD
ObjEdge == [title |-> "Budget edge", description |-> Substring0(LongText, 19795)]

RECURSIVE SeqsUpTo(_, _)
SeqsUpTo(S, n) ==
  IF n = 0 THEN {<<>>}
  ELSE LET shorter == SeqsUpTo(S, n - 1)
       IN  shorter \cup {Append(q, x) : q \in shorter, x \in S}

BatchArrays == SeqsUpTo({ObjPlain, ObjTc2}, MaxBatch) \cup {<<ObjLong>>, <<ObjEdge>>}

BatchResponses ==
  {Text("array", "none", "none", a) : a \in BatchArrays} \cup
  {Text("array", "fence", "none", <<ObjPlain>>),
   Text("array", "none", "missingComma", <<ObjPlain>>),
   Text("array", "none", "syntax", <<ObjPlain>>),
   Text("array", "prose", "none", <<ObjPlain>>),
   Text("object", "none", "none", <<ObjPlain>>),
   Text("scalar", "none", "none", <<>>),
   Text("scalar", "none", "syntax", <<>>),
   Text("array", "none", "none", <<JsNumber>>),
   Text("array", "none", "none", <<ObjPlain, JsNull>>)}

RefineResponses ==
  {Text("object", "none", "none", <<ObjPlain>>),
   Text("object", "none", "none", <<ObjTc2>>),
   Text("object", "fence", "none", <<ObjTc2>>),
   Text("object", "prose", "none", <<ObjPlain>>),
   Text("object", "none", "missingComma", <<ObjPlain>>),
   Text("object", "none", "syntax", <<ObjPlain>>),
   Text("array", "none", "none", <<>>),
   Text("array", "none", "none", <<ObjPlain>>),
   Text("array", "none", "none", <<ObjPlain, ObjTc2>>),
   Text("scalar", "none", "none", <<>>),
   Text("scalar", "none", "syntax", <<>>)}

\* what the backend may answer to the correction prompt
CorrectionResponses ==
  {Text("object", "none", "none", <<ObjPlain>>),
   Text("object", "fence", "none", <<ObjTc2>>),
   Text("object", "none", "syntax", <<ObjPlain>>),
   Text("scalar", "none", "syntax", <<>>)}

SummaryResponses == {" Users can log in with email and password\n"}

CompressionResponses == {"  - login and logout are covered\n", ""}

EditForms ==
  {[title |-> "Edited title", description |-> "", preconditions |-> "",
    steps |-> <<"1. Open the page">>, expectedResult |-> "Shown",
    priority |-> "Low", type |-> "Edge"]}

PrdSummaryText == "Users can log in with email and password"

FollowUpText == "add more negative test cases"

DefaultCount == 5

(***************************************************************************)
(* State.                                                                  *)
(*   testCases      the working set held by the result page                *)
(*   pc             where the operation in progress stands                 *)
(*   refineTargetId the identifier selected for refinement                 *)
(*   existingTestCasesForPrompt, sentPrompt   add-more route locals        *)
(*   generatedText, cleanedText, parseAttempts, parsed   route locals      *)
(*   calls          backend calls of the invocation, in order              *)
(*   parseLog       texts handed to a parse function in the invocation     *)
(*   outcome        the response of the last finished invocation           *)
(*   nIn, nOut      argument and result of a direct normalizeTestCase call *)
(*   config, dispatcher   a provider configuration and the dispatcher it   *)
(*                  is handed to (createProvider or callLLMClient)         *)
(*   providerInstance     the adapter createProvider returned, with the    *)
(*                  variables its closure holds                            *)
(*   ppc            where the dispatch / generate in progress stands       *)
(*   requests       outbound network requests of the current generate      *)
(*   genResult      what the last dispatch or generate returned or threw   *)
(*   invocations    generate invocations started so far                    *)
(*   llmText, textOut     a generated text as characters and its parse     *)
(*   navigationState      the module-level variable of the navigation      *)
(*                  store                                                  *)
(*   navLog         the calls made to the navigation store, in order       *)
(*   tokIn, tokOut  two texts and their token estimates                    *)
(*   request        the body posted to a route, with the route's name      *)
(*   routeResponse  status and error of the route's response, status 0     *)
(*                  while the route awaits its first backend call          *)
(*   routeCalls     generate calls the route has issued                    *)
(*   workflowStep, loading     the upload page's workflow step and its     *)
(*                  loading flag, which opens the workflow modal           *)
(*   submitPc       where handleSubmit of the upload page stands           *)
(*   renders        what the workflow modal rendered after each update     *)
(*   submits        submissions started so far                             *)
(*   pageTestCases, sessionTestCases     the result page's working set and *)
(*                  the copy in session storage, each record reduced to    *)
(*                  its identifier and one content token                   *)
(*   dialog, dialogTargetId     which dialog of the result page is open    *)
(*                  and the record the refine dialog was opened for        *)
(*   refineInFlight, addMoreInFlight     the handler awaiting its          *)
(*                  response, with the values its closure captured         *)
(*   editingRecord  the record being edited inline, "" when none           *)
(*   serialTestCases      the completed updates applied one after another  *)
(*   pageOps        handler invocations and saved edits so far             *)
(***************************************************************************)
VARIABLES testCases, pc, refineTargetId, existingTestCasesForPrompt, sentPrompt,
          generatedText, cleanedText, parseAttempts, parsed, calls, parseLog,
          outcome, nIn, nOut,
          config, dispatcher, providerInstance, ppc, requests, genResult,
          invocations, llmText, textOut,
          navigationState, navLog, tokIn, tokOut,
          request, routeResponse, routeCalls,
          workflowStep, loading, submitPc, renders, submits,
          pageTestCases, sessionTestCases, dialog, dialogTargetId, refineInFlight,
          addMoreInFlight, editingRecord, serialTestCases, pageOps

vars == <<testCases, pc, refineTargetId, existingTestCasesForPrompt, sentPrompt,
          generatedText, cleanedText, parseAttempts, parsed, calls, parseLog,
          outcome, nIn, nOut,
          config, dispatcher, providerInstance, ppc, requests, genResult,
          invocations, llmText, textOut,
          navigationState, navLog, tokIn, tokOut,
          request, routeResponse, routeCalls,
          workflowStep, loading, submitPc, renders, submits,
          pageTestCases, sessionTestCases, dialog, dialogTargetId, refineInFlight,
          addMoreInFlight, editingRecord, serialTestCases, pageOps>>

pageVars == <<testCases, pc, refineTargetId, existingTestCasesForPrompt, sentPrompt,
              generatedText, cleanedText, parseAttempts, parsed, calls, parseLog,
              outcome>>

providerVars == <<config, dispatcher, providerInstance, ppc, requests, genResult,
                  invocations>>

routeLocals == <<generatedText, cleanedText, parseAttempts, parsed>>

normVars == <<nIn, nOut>>

textVars == <<llmText, textOut>>

navVars == <<navigationState, navLog>>

tokVars == <<tokIn, tokOut>>

routeVars == <<request, routeResponse, routeCalls>>

stepVars == <<workflowStep, loading, submitPc, renders, submits>>

liveVars == <<pageTestCases, sessionTestCases, dialog, dialogTargetId, refineInFlight,
              addMoreInFlight, editingRecord, serialTestCases, pageOps>>

\* the variables of the specifications that follow ProviderSpec and TextSpec
restVars == <<navVars, tokVars, routeVars, stepVars, liveVars>>

Outcome(op, status, error, rawResponse, records) ==
  [op |-> op, status |-> status, error |-> error, rawResponse |-> rawResponse,
   records |-> records, summary |-> ""]

\* the message of the error a failed backend call throws
BackendErrorMessage == "API error"

NoOutcome == Outcome("none", "none", "", NoText, <<>>)

Call(kind, ok, content) == [kind |-> kind, ok |-> ok, content |-> content]

\* a backend call together with the user prompt it was sent
CallSent(kind, ok, content, userPrompt) ==
  [kind |-> kind, ok |-> ok, content |-> content, userPrompt |-> userPrompt]

NoNormInput == [tc |-> <<>>, index |-> 0, existingIds |-> NoIds]

NoNormOutput == [done |-> FALSE, tc |-> <<>>, existingIds |-> NoIds]

NoConfig == [provider |-> "none"]

NoResult == [status |-> "none", error |-> ""]

\* no dispatch has happened yet
ProviderNew ==
  /\ providerInstance = NoProvider
  /\ ppc = "new"
  /\ requests = <<>>
  /\ genResult = NoResult
  /\ invocations = 0

NoLlmText ==
  [lead |-> "", fenced |-> FALSE, tag |-> "", afterOpen |-> "", records |-> <<>>,
   comma |-> <<>>, gap |-> "", bare |-> FALSE, beforeClose |-> "",
   closed |-> FALSE, trail |-> ""]

NoTextOut ==
  [done |-> FALSE, unfenced |-> "", cleaned |-> "", ok |-> FALSE, error |-> "",
   records |-> <<>>, parseAttempts |-> 0, repairCalls |-> 0]

\* no text has been parsed yet
TextNew == llmText = NoLlmText /\ textOut = NoTextOut

\* navigationState = null (normalizeTestCase.ts line 119)
null == [provider |-> "null"]

NavNew == navigationState = null /\ navLog = <<>>

NoTokIn == [a |-> "", b |-> ""]

NoTokOut == [done |-> FALSE, a |-> 0, b |-> 0]

TokNew == tokIn = NoTokIn /\ tokOut = NoTokOut

NoRequest == [op |-> "none", body |-> <<>>]

NoResponse == [done |-> FALSE, status |-> 0, error |-> ""]

RouteNew == request = NoRequest /\ routeResponse = NoResponse /\ routeCalls = 0

\* the upload page as mounted: useState(false) and useState("extracting")
StepNew ==
  /\ workflowStep = "extracting"
  /\ loading = FALSE
  /\ submitPc = "idle"
  /\ renders = <<>>
  /\ submits = 0

\* no handler of the result page is awaiting a response
NoFlight == [loading |-> FALSE, testCases |-> <<>>, refineTargetId |-> ""]

\* the result page before it is mounted
LiveNew ==
  /\ pageTestCases = <<>>
  /\ sessionTestCases = <<>>
  /\ dialog = "none"
  /\ dialogTargetId = ""
  /\ refineInFlight = NoFlight
  /\ addMoreInFlight = NoFlight
  /\ editingRecord = ""
  /\ serialTestCases = <<>>
  /\ pageOps = 0

RestNew == NavNew /\ TokNew /\ RouteNew /\ StepNew /\ LiveNew

Init ==
  /\ testCases = <<>>
  /\ pc = "idle"
  /\ refineTargetId = ""
  /\ existingTestCasesForPrompt = AsList(<<>>)
  /\ sentPrompt = NoPrompt
  /\ generatedText = NoText
  /\ cleanedText = NoText
  /\ parseAttempts = 0
  /\ parsed = <<>>
  /\ calls = <<>>
  /\ parseLog = <<>>
  /\ outcome = NoOutcome
  /\ nIn = NoNormInput
  /\ nOut = NoNormOutput
  /\ config = NoConfig
  /\ dispatcher = "none"
  /\ ProviderNew
  /\ TextNew
  /\ RestNew

\* a new invocation starts with fresh locals
StartInvocation(nextPc) ==
  /\ pc' = nextPc
  /\ generatedText' = NoText
  /\ cleanedText' = NoText
  /\ parseAttempts' = 0
  /\ parsed' = <<>>
  /\ calls' = <<>>
  /\ parseLog' = <<>>
  /\ outcome' = NoOutcome

\* the invocation returns an error response; the page keeps its working set
FailSwallowed(op, status, error, rawResponse) ==
  /\ pc' = "done"
  /\ outcome' = Outcome(op, "ok", "", rawResponse, <<>>)
  /\ UNCHANGED testCases

FailWithoutRaw(op, status, error, rawResponse) ==
  /\ pc' = "done"
  /\ outcome' = Outcome(op, status, error, NoText, <<>>)
  /\ UNCHANGED testCases

Fail(op, status, error, rawResponse) ==
  /\ pc' = "done"
  /\ outcome' = Outcome(op, status, error, rawResponse, <<>>)
  /\ UNCHANGED testCases

(***************************************************************************)
(* PRD summary: POST /api/generate-summary, called by the upload workflow  *)
(* before any test case exists.                                            *)
(***************************************************************************)
SummaryStart ==
  /\ pc = "idle"
  /\ testCases = <<>>
  /\ StartInvocation("summary_call")
  /\ existingTestCasesForPrompt' = AsList(<<>>)
  /\ sentPrompt' = NoPrompt
  /\ UNCHANGED <<testCases, refineTargetId, normVars, providerVars, textVars, restVars>>

\* lines 60-86
GenerateSummary ==
  /\ pc = "summary_call"
  /\ \/ /\ calls' = Append(calls, Call("generate", FALSE, NoText))
        /\ Fail("summary", "backend_error",
                "Failed to generate PRD summary: " \o BackendErrorMessage, NoText)
     \/ \E content \in SummaryResponses :
          /\ calls' = Append(calls, Call("generate", TRUE, content))
          /\ outcome' = [Outcome("summary", "ok", "", NoText, <<>>)
                           EXCEPT !.summary = Trim(content)]
          /\ pc' = "done"
          /\ UNCHANGED testCases
  /\ UNCHANGED <<refineTargetId, existingTestCasesForPrompt, sentPrompt,
                 routeLocals, parseLog, normVars, providerVars, textVars, restVars>>

(***************************************************************************)
(* Initial generation: POST /api/generate-cases (src/unnamed/part_008) and *)
(* the client-side generation of WorkflowModal.tsx lines 526-541; the      *)
(* result page then loads the stored set.                                  *)
(***************************************************************************)
GenerateStart ==
  /\ pc = "idle"
  /\ testCases = <<>>                \* the initial generation of the working set
  /\ StartInvocation("generate_call")
  /\ existingTestCasesForPrompt' = AsList(<<>>)
  /\ sentPrompt' = NoPrompt
  /\ refineTargetId' = ""            \* the result page is mounted anew afterwards
  /\ UNCHANGED <<testCases, normVars, providerVars, textVars, restVars>>

\* lines 66-103: the generate call, then parse and normalize
GenerateCases ==
  /\ pc = "generate_call"
  /\ \/ /\ calls' = Append(calls, Call("generate", FALSE, NoText))
        /\ Fail("generate", "backend_error",
                "LLM generation failed: " \o BackendErrorMessage, NoText)
        /\ UNCHANGED <<routeLocals, parseLog>>
     \/ \E content \in BatchResponses :
          LET p == parseTestCasesFromLLM(content)
          IN  /\ calls' = Append(calls, Call("generate", TRUE, content))
              /\ generatedText' = content
              /\ parseLog' = Append(parseLog, content)
              /\ UNCHANGED <<cleanedText, parseAttempts, parsed>>
              /\ IF p.ok /\ ~NormalizeThrows(p.value)
                   THEN LET new == normalizeTestCases(p.value, <<>>)
                        IN  /\ testCases' = new
                            /\ outcome' = Outcome("generate", "ok", "", content, new)
                            /\ pc' = "done"
                   ELSE Fail("generate", "parse_error",
                             "Failed to parse LLM response: " \o
                               (IF p.ok THEN TypeErrorMessage ELSE p.error),
                             content)
  /\ UNCHANGED <<refineTargetId, existingTestCasesForPrompt, sentPrompt, normVars, providerVars, textVars, restVars>>

(***************************************************************************)
(* Add more: handleAddMore of the result page (src/unnamed/part_007 lines  *)
(* 634-690) calling POST /api/add-more-cases.                              *)
(***************************************************************************)
\* route lines 127-149: estimate the serialized set and choose the context
AddMoreStart ==
  /\ pc = "idle"
  /\ testCases # <<>>
  /\ Len(testCases) < MaxSet
  /\ LET existingTestCasesJson == JsonStringify(testCases)
         existingTokens == estimateTokens(existingTestCasesJson)
     IN  IF ExceedsThreshold(existingTokens)
           THEN /\ StartInvocation("addmore_summarize")
                /\ existingTestCasesForPrompt' = AsList(<<>>)
                /\ sentPrompt' = NoPrompt
           ELSE /\ StartInvocation("addmore_call")
                /\ existingTestCasesForPrompt' = AsList(testCases)
                /\ sentPrompt' = generateAddMoreTestCasesPrompt(
                                   PrdSummaryText, AsList(testCases),
                                   FollowUpText, DefaultCount)
  /\ UNCHANGED <<testCases, refineTargetId, normVars, providerVars, textVars, restVars>>

\* summarizeExistingTestCases (lines 19-51), then lines 137 and 144-149
SummarizeExistingTestCases ==
  /\ pc = "addmore_summarize"
  /\ \E r \in [ok : {TRUE}, content : CompressionResponses] \cup
              {[ok |-> FALSE, content |-> ""]} :
       LET summary == IF r.ok THEN Trim(r.content) ELSE SummaryFallback(testCases)
       IN  /\ calls' = Append(calls, CallSent("compress", r.ok, r.content,
                                              SummarizeUserPrompt(testCases)))
           /\ existingTestCasesForPrompt' = AsString(summary)
           /\ sentPrompt' = generateAddMoreTestCasesPrompt(
                              PrdSummaryText, AsString(summary),
                              FollowUpText, DefaultCount)
  /\ pc' = "addmore_call"
  /\ UNCHANGED <<testCases, refineTargetId, routeLocals, parseLog, outcome, normVars, providerVars, textVars, restVars>>

\* route lines 151-195 and the merge of the result page (lines 675-680)
AddMoreCases ==
  /\ pc = "addmore_call"
  /\ \/ /\ calls' = Append(calls, Call("generate", FALSE, NoText))
        /\ Fail("addmore", "backend_error",
                "LLM generation failed: " \o BackendErrorMessage, NoText)
        /\ UNCHANGED <<routeLocals, parseLog>>
     \/ \E content \in BatchResponses :
          LET p == parseTestCasesFromLLM(content)
          IN  /\ Len(testCases) + Len(p.value) <= MaxSet
              /\ calls' = Append(calls, Call("generate", TRUE, content))
              /\ generatedText' = content
              /\ parseLog' = Append(parseLog, content)
              /\ UNCHANGED <<cleanedText, parseAttempts, parsed>>
              /\ IF p.ok /\ ~NormalizeThrows(p.value)
                   THEN LET newTestCases == normalizeTestCases(p.value, testCases)
                        IN  /\ testCases' = testCases \o newTestCases
                            /\ outcome' = Outcome("addmore", "ok", "", content,
                                                  newTestCases)
                            /\ pc' = "done"
                   ELSE Fail("addmore", "parse_error",
                             "Failed to parse LLM response: " \o
                               (IF p.ok THEN TypeErrorMessage ELSE p.error),
                             content)
  /\ UNCHANGED <<refineTargetId, existingTestCasesForPrompt, sentPrompt, normVars, providerVars, textVars, restVars>>

(***************************************************************************)
(* Refine: handleRefine of the result page (src/unnamed/part_007 lines     *)
(* 507-568) calling POST /api/refine-test-case.                            *)
(***************************************************************************)
RefineStart ==
  /\ pc = "idle"
  /\ \E id \in IdsOf(testCases) : refineTargetId' = id
  /\ StartInvocation("refine_call")
  /\ existingTestCasesForPrompt' = AsList(<<>>)
  /\ sentPrompt' = NoPrompt
  /\ UNCHANGED <<testCases, normVars, providerVars, textVars, restVars>>

\* the record the page selected: testCases.find(tc => tc.testId === refineTargetId)
FindTarget ==
  testCases[CHOOSE i \in DOMAIN testCases :
              /\ testCases[i].testId = refineTargetId
              /\ \A j \in 1..(i - 1) : testCases[j].testId # refineTargetId]

\* route lines 158-162
RefinedRecordNotPreserving(parsedObject, testCase) ==
  normalizeTestCase(parsedObject, 0, NoIds).tc

RefinedRecord(parsedObject, testCase) ==
  normalizeTestCase(
    [f \in DOMAIN parsedObject \cup {"testId"} |->
       IF f = "testId" THEN OrDefault(parsedObject, "testId", testCase.testId)
       ELSE parsedObject[f]],
    0, NoIds).tc

\* page lines 555-559
ReplaceTarget(updated) ==
  [i \in DOMAIN testCases |->
     IF testCases[i].testId = refineTargetId THEN updated ELSE testCases[i]]

\* route lines 153-164 with the page's update (lines 552-562): the loop was
\* left with `parsed`
RefineRespond(parsedNow, raw) ==
  IF parsedNow = <<>>
    THEN /\ Fail("refine", "parse_error",
                 "Failed to parse refined test case: Failed to parse JSON after all attempts",
                 raw)
         /\ UNCHANGED refineTargetId
    ELSE LET refined == RefinedRecord(parsedNow[1], FindTarget)
         IN  /\ testCases' = ReplaceTarget(refined)
             /\ outcome' = Outcome("refine", "ok", "", raw, <<refined>>)
             /\ pc' = "done"
             /\ refineTargetId' = ""

\* one pass of the while loop, lines 110-139, up to the next await or to the
\* response; `raw` is generatedText and `cleaned` is cleanedText as the pass
\* finds them
RefineParse(raw, cleaned) ==
  IF parseAttempts < maxAttempts
    THEN LET matched == ExtractJsonObject(cleaned)
             p == parseTestCaseFromLLM(matched)
         IN  /\ cleanedText' = matched
             /\ parseLog' = Append(parseLog, matched)
             /\ IF p.ok
                  THEN /\ parsed' = p.value
                       /\ parseAttempts' = parseAttempts
                       /\ RefineRespond(p.value, raw)
                  ELSE /\ parsed' = parsed
                       /\ parseAttempts' = parseAttempts + 1
                       /\ UNCHANGED refineTargetId
                       /\ IF parseAttempts + 1 >= maxAttempts
                            THEN Fail("refine", "parse_error",
                                      "Failed to parse refined test case: " \o p.error,
                                      raw)
                            ELSE /\ pc' = "refine_correct"
                                 /\ UNCHANGED <<testCases, outcome>>
    ELSE /\ RefineRespond(parsed, raw)
         /\ cleanedText' = cleaned
         /\ UNCHANGED <<parseAttempts, parsed, parseLog>>

\* route lines 86-139: the primary call, the initialisation of the loop and
\* its first pass
RefineGenerate ==
  /\ pc = "refine_call"
  /\ \/ /\ calls' = Append(calls, Call("generate", FALSE, NoText))
        /\ Fail("refine", "backend_error",
                "LLM refinement failed: " \o BackendErrorMessage, NoText)
        /\ UNCHANGED <<routeLocals, parseLog, refineTargetId>>
     \/ \E content \in RefineResponses :
          /\ calls' = Append(calls, Call("generate", TRUE, content))
          /\ generatedText' = content
          \* let cleanedText = generatedText.trim()
          /\ RefineParse(content, content)
  /\ UNCHANGED <<existingTestCasesForPrompt, sentPrompt, normVars, providerVars, textVars, restVars>>

\* the correction call, lines 140-148, and the pass of the loop that follows
RefineCorrect ==
  /\ pc = "refine_correct"
  /\ \/ /\ calls' = Append(calls, Call("repair", FALSE, NoText))
        /\ RefineRespond(parsed, generatedText)           \* break
        /\ UNCHANGED <<routeLocals, parseLog>>
     \/ \E content \in CorrectionResponses :
          /\ calls' = Append(calls, Call("repair", TRUE, content))
          /\ generatedText' = content
          \* cleanedText is not assigned from the new content
          /\ RefineParse(content, cleanedText)
  /\ UNCHANGED <<existingTestCasesForPrompt, sentPrompt, normVars, providerVars, textVars, restVars>>

(***************************************************************************)
(* Manual edit: startEdit / saveEdit of the result page (lines 570-603).   *)
(***************************************************************************)
SaveEdit ==
  /\ pc = "idle"
  /\ \E editingId \in IdsOf(testCases), editForm \in EditForms :
       testCases' =
         [i \in DOMAIN testCases |->
            IF testCases[i].testId = editingId
              THEN [f \in TestCaseFields |->
                      IF f \in DOMAIN editForm THEN editForm[f]
                      ELSE testCases[i][f]]
              ELSE testCases[i]]
  /\ UNCHANGED <<pc, refineTargetId, existingTestCasesForPrompt, sentPrompt,
                 routeLocals, calls, parseLog, outcome, normVars, providerVars, textVars, restVars>>

(***************************************************************************)
(* The handler that awaited the response ends (the `finally` blocks of the *)
(* page, lines 565-567 and 687-689): the loading flag is cleared and the   *)
(* locals of the invocation are gone.  Nothing else runs between the       *)
(* response and this step.                                                 *)
(***************************************************************************)
FinishRequest ==
  /\ pc = "done"
  /\ StartInvocation("idle")
  /\ existingTestCasesForPrompt' = AsList(<<>>)
  /\ sentPrompt' = NoPrompt
  /\ UNCHANGED <<testCases, refineTargetId, normVars, providerVars, textVars, restVars>>

Next ==
  \/ SummaryStart
  \/ GenerateSummary
  \/ GenerateStart
  \/ GenerateCases
  \/ AddMoreStart
  \/ SummarizeExistingTestCases
  \/ AddMoreCases
  \/ RefineStart
  \/ RefineGenerate
  \/ RefineCorrect
  \/ SaveEdit
  \/ FinishRequest

Spec == Init /\ [][Next]_vars

(***************************************************************************)
(* Direct calls of normalizeTestCase on bounded inputs.                    *)
(***************************************************************************)
FieldOrder ==
  <<"testId", "title", "description", "preconditions", "steps",
    "expectedResult", "priority", "type">>

FieldValues(f) ==
  CASE f = "testId" -> {"", "TC-001", "LOGIN-1"}
    [] f = "title" -> {"", "Checkout"}
    [] f = "description" -> {"", "Pays by card"}
    [] f = "preconditions" -> {"", "Cart not empty"}
    [] f = "steps" -> {[isArray |-> TRUE, value |-> <<>>],
                       [isArray |-> TRUE, value |-> <<"1. Pay", "2. Verify">>],
                       [isArray |-> FALSE, value |-> "1. Pay"]}
    [] f = "expectedResult" -> {"", "Order placed"}
    [] f = "priority" -> {"", "High", "Critical"}
    [] f = "type" -> {"", "Edge", "Smoke"}

\* every partial record: each field absent or one of its values
RECURSIVE PartialsOver(_)
PartialsOver(fields) ==
  IF fields = <<>> THEN {<<>>}
  ELSE LET rest == PartialsOver(Tail(fields))
           f == Head(fields)
       IN  rest \cup {(f :> v) @@ r : r \in rest, v \in FieldValues(f)}

PartialRecords == PartialsOver(FieldOrder)

IdPool == {FormatTestId(k) : k \in 1..(MaxIndex + 2)} \cup {"LOGIN-1"}

NormInputs ==
  [tc : PartialRecords, index : 0..MaxIndex,
   existingIds : {NoIds, SomeIds({"TC-001", "TC-002"})}]
  \cup
  [tc : PartialsOver(<<"testId">>) \cup {[testId |-> FormatTestId(MaxIndex + 1)]},
   index : 0..MaxIndex,
   existingIds : {SomeIds(S) : S \in SUBSET IdPool}]

NormInit ==
  /\ testCases = <<>>
  /\ pc = "idle"
  /\ refineTargetId = ""
  /\ existingTestCasesForPrompt = AsList(<<>>)
  /\ sentPrompt = NoPrompt
  /\ generatedText = NoText
  /\ cleanedText = NoText
  /\ parseAttempts = 0
  /\ parsed = <<>>
  /\ calls = <<>>
  /\ parseLog = <<>>
  /\ outcome = NoOutcome
  /\ nIn \in NormInputs
  /\ nOut = NoNormOutput
  /\ config = NoConfig
  /\ dispatcher = "none"
  /\ ProviderNew
  /\ TextNew
  /\ RestNew

NormalizeOne ==
  /\ ~nOut.done
  /\ LET r == normalizeTestCase(nIn.tc, nIn.index, nIn.existingIds)
     IN  nOut' = [done |-> TRUE, tc |-> r.tc, existingIds |-> r.existingIds]
  /\ UNCHANGED <<pageVars, nIn, providerVars, textVars, restVars>>

NormNext == NormalizeOne

NormSpec == NormInit /\ [][NormNext]_vars

(***************************************************************************)
(* Dispatch and generate: one configuration handed to the server-side      *)
(* factory (createProvider, then generate on the adapter) or to the        *)
(* client-side dispatcher (callLLMClient).  A generate is split at its     *)
(* awaits.                                                                 *)
(***************************************************************************)
PartialConfigs ==
  LET OptField(f, values) == {<<>>} \cup {f :> v : v \in values}
  IN  {a @@ m @@ e @@ d @@ v @@ b :
         a \in OptField("apiKey", {"", "sk-test"}),
         m \in OptField("model", {"", "gemini-1.5-pro", "gemini-ultra"}),
         e \in OptField("endpoint", {"https://my-instance.openai.azure.com"}),
         d \in OptField("deployment", {"gpt4"}),
         v \in OptField("apiVersion", {"2024-02-15-preview"}),
         b \in OptField("baseUrl", {"http://ollama:11434"})}

ProviderConfigs ==
  {("provider" :> k) @@ c : k \in ProviderType \cup {"cohere"}, c \in PartialConfigs}

\* what the models endpoint may answer
ListResponses ==
  {FetchThrows, NotOk, ModelsBody(FALSE, <<>>), ModelsBody(TRUE, <<>>),
   ModelsBody(TRUE, <<ModelEntry("models/gemini-pro", {"generateContent"}),
                      ModelEntry("models/gemini-1.5-pro-002", {"generateContent"}),
                      ModelEntry("models/gemini-1.5-flash-002", {"generateContent"}),
                      ModelEntry("models/embedding-001", {"embedContent"})>>),
   ModelsBody(TRUE, <<ModelEntry("models/gemini-pro", {"generateContent"}),
                      ModelEntry("models/gemini-1.0-pro-latest",
                                 {"generateContent"})>>)}

ProviderInit ==
  /\ testCases = <<>>
  /\ pc = "idle"
  /\ refineTargetId = ""
  /\ existingTestCasesForPrompt = AsList(<<>>)
  /\ sentPrompt = NoPrompt
  /\ generatedText = NoText
  /\ cleanedText = NoText
  /\ parseAttempts = 0
  /\ parsed = <<>>
  /\ calls = <<>>
  /\ parseLog = <<>>
  /\ outcome = NoOutcome
  /\ nIn = NoNormInput
  /\ nOut = NoNormOutput
  /\ config \in ProviderConfigs
  /\ dispatcher \in {"createProvider", "callLLMClient"}
  /\ ProviderNew
  /\ TextNew
  /\ RestNew

\* a route creates its provider instance (e.g. add-more-cases lines 104-125)
CreateProvider ==
  /\ ppc = "new"
  /\ dispatcher = "createProvider"
  /\ LET r == createProvider(config)
     IN  IF r.ok
           THEN /\ providerInstance' = r.instance
                /\ ppc' = "ready"
                /\ UNCHANGED genResult
           ELSE /\ ppc' = "config_error"
                /\ genResult' = [status |-> "config_error", error |-> r.error]
                /\ UNCHANGED providerInstance
  /\ UNCHANGED <<pageVars, normVars, textVars, restVars, config, dispatcher, requests, invocations>>

\* generate of an adapter up to its first await: ensureModel of the gemini
\* adapter (part_006 lines 21-46) starts the model detection when llm is
\* null, every other path goes to llm.invoke
AdapterGenerate ==
  /\ ppc = "ready"
  /\ invocations < MaxInvocations
  /\ invocations' = invocations + 1
  /\ genResult' = NoResult
  /\ IF providerInstance.kind = "gemini" /\ ~providerInstance.llm
       THEN /\ providerInstance' =
                 [providerInstance EXCEPT !.modelDetectionPromise = TRUE]
            /\ requests' = <<Request("gemini:models", "")>>
            /\ ppc' = "detecting"
       ELSE /\ requests' =
                 <<Request(providerInstance.kind \o ":invoke",
                           IF providerInstance.kind = "gemini"
                             THEN providerInstance.actualModel
                             ELSE providerInstance.model)>>
            /\ ppc' = "invoking"
            /\ UNCHANGED providerInstance
  /\ UNCHANGED <<pageVars, normVars, textVars, restVars, config, dispatcher>>

\* the models request is answered: lines 25-42 choose the model and build
\* llm, then generate goes on to llm.invoke (line 70)
EnsureModel ==
  /\ ppc = "detecting"
  /\ \E response \in ListResponses :
       LET actualModel == findAvailableGeminiModel(response, providerInstance.model)
       IN  /\ providerInstance' =
                [providerInstance EXCEPT !.actualModel = actualModel, !.llm = TRUE]
           /\ requests' = Append(requests, Request("gemini:invoke", actualModel))
  /\ ppc' = "invoking"
  /\ UNCHANGED <<pageVars, normVars, textVars, restVars, config, dispatcher, genResult, invocations>>

\* the request of llm.invoke / fetch is answered or fails; the error is
\* thrown to the caller
InvokeRespond ==
  /\ ppc = "invoking"
  /\ \E ok \in BOOLEAN :
       genResult' = IF ok THEN [status |-> "ok", error |-> ""]
                    ELSE [status |-> "backend_error", error |-> "API error"]
  /\ ppc' = IF dispatcher = "createProvider" THEN "ready" ELSE "new"
  /\ UNCHANGED <<pageVars, normVars, textVars, restVars, config, dispatcher, providerInstance,
                 requests, invocations>>

\* src/unnamed/part_004 lines 39-74 up to the fetch of the selected call
CallLLMClient ==
  /\ ppc = "new"
  /\ dispatcher = "callLLMClient"
  /\ invocations < MaxInvocations
  /\ LET r == callLLMClient(config)
     IN  IF r.ok
           THEN /\ requests' = <<r.request>>
                /\ ppc' = "invoking"
                /\ invocations' = invocations + 1
                /\ genResult' = NoResult
           ELSE /\ requests' = <<>>
                /\ ppc' = "config_error"
                /\ genResult' = [status |-> "config_error", error |-> r.error]
                /\ UNCHANGED invocations
  /\ UNCHANGED <<pageVars, normVars, textVars, restVars, config, dispatcher, providerInstance>>

ProviderNext ==
  \/ CreateProvider
  \/ AdapterGenerate
  \/ EnsureModel
  \/ InvokeRespond
  \/ CallLLMClient

ProviderSpec == ProviderInit /\ [][ProviderNext]_vars

(***************************************************************************)
(* The parse of a generated text, character by character:                  *)
(* src/unnamed/part_008 lines 85-103 with generatedText a text of          *)
(* characters.                                                             *)
(***************************************************************************)
Leads == {"", " \n"}

Tags == {"", "json", "JSON", "Json"}

Shapes ==
  UNION {{[records |-> recs, comma |-> comma, gap |-> gap, bare |-> bare] :
            comma \in [DOMAIN recs -> BOOLEAN], gap \in Gaps,
            bare \in {b \in BOOLEAN : b => Len(recs) = 1}} :
         recs \in TextRecordSeqs}

Wrappings ==
  [lead : Leads, fenced : {FALSE}, tag : {""}, afterOpen : {""},
   beforeClose : {""}, closed : {FALSE}, trail : Leads]
  \cup
  [lead : Leads, fenced : {TRUE}, tag : Tags, afterOpen : {"", "\n"},
   beforeClose : {"", "\n"}, closed : {TRUE}, trail : Leads]
  \cup
  [lead : {""}, fenced : BOOLEAN, tag : {"json"}, afterOpen : {"\n"},
   beforeClose : {"\n"}, closed : BOOLEAN, trail : {""}]

LlmTexts == {w @@ b : w \in Wrappings, b \in Shapes}

TextInit ==
  /\ testCases = <<>>
  /\ pc = "idle"
  /\ refineTargetId = ""
  /\ existingTestCasesForPrompt = AsList(<<>>)
  /\ sentPrompt = NoPrompt
  /\ generatedText = NoText
  /\ cleanedText = NoText
  /\ parseAttempts = 0
  /\ parsed = <<>>
  /\ calls = <<>>
  /\ parseLog = <<>>
  /\ outcome = NoOutcome
  /\ nIn = NoNormInput
  /\ nOut = NoNormOutput
  /\ config = NoConfig
  /\ dispatcher = "none"
  /\ ProviderNew
  /\ llmText \in LlmTexts
  /\ textOut = NoTextOut
  /\ RestNew

\* lines 87-89 and the catch of lines 90-103: one call of
\* parseTestCasesFromLLM, no correction call
ParseGeneratedText ==
  /\ ~textOut.done
  /\ LET text == RenderLlmText(llmText)
         p == ParseTestCasesText(text)
     IN  textOut' = [done |-> TRUE,
                     unfenced |-> Unfence(text),
                     cleaned |-> CleanText(text),
                     ok |-> p.ok,
                     error |-> IF p.ok THEN ""
                               ELSE "Failed to parse LLM response: " \o p.error,
                     records |-> IF p.ok THEN normalizeTestCases(p.value, <<>>)
                                 ELSE <<>>,
                     parseAttempts |-> 1,
                     repairCalls |-> 0]
  /\ UNCHANGED <<pageVars, normVars, providerVars, restVars, llmText>>

TextNext == ParseGeneratedText

TextSpec == TextInit /\ [][TextNext]_vars

(***************************************************************************)
(* src/lib/utils/normalizeTestCase.ts lines 100-144: the in-memory store   *)
(* that hands the provider configuration from one page to the next.  Each  *)
(* operator gives the value returned and the value of the module-level     *)
(* variable after the call.                                                *)
(***************************************************************************)
\* lines 124-126
setNavigationState(state, c) == [result |-> "undefined", state |-> c]

\* lines 132-136
getAndClearNavigationStateKeeping(state) == [result |-> state, state |-> state]

getAndClearNavigationState(state) == [result |-> state, state |-> null]

\* lines 141-143
hasNavigationState(state) == [result |-> state # null, state |-> state]

NavConfigs ==
  {[provider |-> "openai", config |-> [apiKey |-> "sk-test"]],
   [provider |-> "gemini", config |-> [apiKey |-> "g-key", model |-> "gemini-pro"]],
   [provider |-> "ollama", config |-> [baseUrl |-> "http://localhost:11434"]]}

NavCall(op, arg, r) == [op |-> op, arg |-> arg, result |-> r.result, stored |-> r.state]

NavInit ==
  /\ testCases = <<>>
  /\ pc = "idle"
  /\ refineTargetId = ""
  /\ existingTestCasesForPrompt = AsList(<<>>)
  /\ sentPrompt = NoPrompt
  /\ generatedText = NoText
  /\ cleanedText = NoText
  /\ parseAttempts = 0
  /\ parsed = <<>>
  /\ calls = <<>>
  /\ parseLog = <<>>
  /\ outcome = NoOutcome
  /\ nIn = NoNormInput
  /\ nOut = NoNormOutput
  /\ config = NoConfig
  /\ dispatcher = "none"
  /\ ProviderNew
  /\ TextNew
  /\ NavNew
  /\ LiveNew
  /\ StepNew
  /\ RouteNew
  /\ TokNew

SetNavigationState ==
  /\ Len(navLog) < MaxNavCalls
  /\ \E c \in NavConfigs :
       LET r == setNavigationState(navigationState, c)
       IN  /\ navigationState' = r.state
           /\ navLog' = Append(navLog, NavCall("set", c, r))
  /\ UNCHANGED <<pageVars, normVars, providerVars, textVars, liveVars, stepVars, routeVars, tokVars>>

GetAndClearNavigationState ==
  /\ Len(navLog) < MaxNavCalls
  /\ LET r == getAndClearNavigationState(navigationState)
     IN  /\ navigationState' = r.state
         /\ navLog' = Append(navLog, NavCall("getAndClear", null, r))
  /\ UNCHANGED <<pageVars, normVars, providerVars, textVars, liveVars, stepVars, routeVars, tokVars>>

HasNavigationState ==
  /\ Len(navLog) < MaxNavCalls
  /\ LET r == hasNavigationState(navigationState)
     IN  /\ navigationState' = r.state
         /\ navLog' = Append(navLog, NavCall("has", null, r))
  /\ UNCHANGED <<pageVars, normVars, providerVars, textVars, liveVars, stepVars, routeVars, tokVars>>

NavNext ==
  \/ SetNavigationState
  \/ GetAndClearNavigationState
  \/ HasNavigationState

NavSpec == NavInit /\ [][NavNext]_vars

(***************************************************************************)
(* src/lib/tokenCounter.ts lines 12-19: estimateTokens called on two       *)
(* texts.                                                                  *)
(***************************************************************************)
\* texts of every length up to MaxTextLen, of two different contents
SampleTexts ==
  {Substring0("Users can log in with email and password", n) : n \in 0..MaxTextLen}
  \cup
  {Substring0("{\"testId\": \"TC-001\", \"title\": \"Login works\"}", n) : n \in 0..MaxTextLen}

TokInit ==
  /\ testCases = <<>>
  /\ pc = "idle"
  /\ refineTargetId = ""
  /\ existingTestCasesForPrompt = AsList(<<>>)
  /\ sentPrompt = NoPrompt
  /\ generatedText = NoText
  /\ cleanedText = NoText
  /\ parseAttempts = 0
  /\ parsed = <<>>
  /\ calls = <<>>
  /\ parseLog = <<>>
  /\ outcome = NoOutcome
  /\ nIn = NoNormInput
  /\ nOut = NoNormOutput
  /\ config = NoConfig
  /\ dispatcher = "none"
  /\ ProviderNew
  /\ TextNew
  /\ NavNew
  /\ LiveNew
  /\ StepNew
  /\ RouteNew
  /\ tokIn \in [a : SampleTexts, b : SampleTexts]
  /\ tokOut = NoTokOut

EstimateTokens ==
  /\ ~tokOut.done
  /\ tokOut' = [done |-> TRUE, a |-> estimateTokens(tokIn.a),
                b |-> estimateTokens(tokIn.b)]
  /\ UNCHANGED <<pageVars, normVars, providerVars, textVars, liveVars, stepVars, routeVars, navVars, tokIn>>

TokNext == EstimateTokens

TokSpec == TokInit /\ [][TokNext]_vars

(***************************************************************************)
(* The four routes from the request to their first backend call: input     *)
(* validation and provider creation.                                       *)
(*   src/app/api/generate-summary/route.ts lines 16-62                     *)
(*   src/unnamed/part_008 lines 18-69 (generate-cases)                     *)
(*   src/app/api/add-more-cases/route.ts lines 67-141                      *)
(*   src/app/api/refine-test-case/route.ts lines 33-87                     *)
(* The body is a record of the fields the request holds; a field that is   *)
(* not there is undefined.                                                 *)
(***************************************************************************)
\* `!body.f || body.f.trim().length === 0` of a string field
Blank(body, f) == Missing(body, f) \/ Trim(body[f]) = ""

\* the argument the routes build for createProvider: provider and
\* config?.apiKey ... config?.baseUrl
ProviderArgument(body) ==
  ("provider" :> IF "provider" \in DOMAIN body THEN body.provider ELSE "undefined")
  @@ (IF "config" \in DOMAIN body THEN body.config ELSE <<>>)

\* `!existingTestCases || !Array.isArray(existingTestCases) ||
\*  existingTestCases.length === 0`
NoExistingTestCases(body) ==
  \/ "existingTestCases" \notin DOMAIN body
  \/ ~body.existingTestCases.isArray
  \/ body.existingTestCases.value = <<>>

\* the message of the first validation that fails, "" when all pass
ValidateGenerateSummary(body) ==
  IF Blank(body, "text") THEN "Text is required"
  ELSE IF Missing(body, "provider") THEN "Provider is required"
  ELSE ""

ValidateGenerateCases(body) ==
  IF Blank(body, "text") THEN "Text is required"
  ELSE IF Missing(body, "provider") THEN "Provider is required"
  ELSE ""

ValidateAddMoreAnySet(body) ==
  IF Blank(body, "summary") THEN "PRD summary is required"
  ELSE IF Blank(body, "followUpPrompt") THEN "Follow-up prompt is required"
  ELSE IF Missing(body, "provider") THEN "Provider is required"
  ELSE ""

ValidateAddMore(body) ==
  IF Blank(body, "summary") THEN "PRD summary is required"
  ELSE IF NoExistingTestCases(body) THEN "Existing test cases are required"
  ELSE IF Blank(body, "followUpPrompt") THEN "Follow-up prompt is required"
  ELSE IF Missing(body, "provider") THEN "Provider is required"
  ELSE ""

ValidateRefine(body) ==
  IF Blank(body, "summary") THEN "PRD summary is required"
  ELSE IF "testCase" \notin DOMAIN body THEN "Test case is required"
  ELSE IF Blank(body, "followup") THEN "Follow-up instruction is required"
  ELSE ""

\* the route up to its first `await providerInstance.generate(...)`
RouteStep(op, invalid) ==
  /\ request.op = op
  /\ ~routeResponse.done
  /\ routeCalls = 0
  /\ IF invalid # ""
       THEN /\ routeResponse' = [done |-> TRUE, status |-> 400, error |-> invalid]
            /\ UNCHANGED routeCalls
       ELSE LET r == createProvider(ProviderArgument(request.body))
            IN  IF ~r.ok
                  THEN /\ routeResponse' = [done |-> TRUE, status |-> 400, error |-> r.error]
                       /\ UNCHANGED routeCalls
                  ELSE /\ routeCalls' = 1
                       /\ UNCHANGED routeResponse
  /\ UNCHANGED <<pageVars, normVars, providerVars, textVars, liveVars, stepVars, navVars, tokVars, request>>

PostGenerateSummary == RouteStep("generate-summary", ValidateGenerateSummary(request.body))

PostGenerateCases == RouteStep("generate-cases", ValidateGenerateCases(request.body))

PostAddMoreCases == RouteStep("add-more-cases", ValidateAddMore(request.body))

PostRefineTestCase == RouteStep("refine-test-case", ValidateRefine(request.body))

Opt(f, values) == {<<>>} \cup {f :> v : v \in values}

\* a string field: not there, empty, blank, or with a text
Texts(f) == Opt(f, {"", " \n", "Users can log in"})

Providers == Opt("provider", {"", "openai", "ollama", "cohere"})

Configs == Opt("config", {<<>>, [apiKey |-> "sk-test"]})

ExistingSets ==
  Opt("existingTestCases",
      {[isArray |-> TRUE, value |-> <<>>],
       [isArray |-> FALSE, value |-> <<>>],
       [isArray |-> TRUE, value |-> <<[testId |-> "TC-001"]>>]})

Requests ==
  {[op |-> "generate-summary", body |-> t @@ p @@ c] :
     t \in Texts("text"), p \in Providers, c \in Configs}
  \cup
  {[op |-> "generate-cases", body |-> t @@ p @@ c] :
     t \in Texts("text"), p \in Providers, c \in Configs}
  \cup
  {[op |-> "add-more-cases", body |-> s @@ e @@ f @@ p @@ c] :
     s \in Texts("summary"), e \in ExistingSets, f \in Texts("followUpPrompt"),
     p \in Providers, c \in Configs}
  \cup
  {[op |-> "refine-test-case", body |-> s @@ t @@ f @@ p @@ c] :
     s \in Texts("summary"), t \in Opt("testCase", {[testId |-> "TC-001"]}),
     f \in Texts("followup"), p \in Providers, c \in Configs}

RouteInit ==
  /\ testCases = <<>>
  /\ pc = "idle"
  /\ refineTargetId = ""
  /\ existingTestCasesForPrompt = AsList(<<>>)
  /\ sentPrompt = NoPrompt
  /\ generatedText = NoText
  /\ cleanedText = NoText
  /\ parseAttempts = 0
  /\ parsed = <<>>
  /\ calls = <<>>
  /\ parseLog = <<>>
  /\ outcome = NoOutcome
  /\ nIn = NoNormInput
  /\ nOut = NoNormOutput
  /\ config = NoConfig
  /\ dispatcher = "none"
  /\ ProviderNew
  /\ TextNew
  /\ NavNew
  /\ LiveNew
  /\ StepNew
  /\ TokNew
  /\ request \in Requests
  /\ routeResponse = NoResponse
  /\ routeCalls = 0

RouteNext ==
  \/ PostGenerateSummary
  \/ PostGenerateCases
  \/ PostAddMoreCases
  \/ PostRefineTestCase

RouteSpec == RouteInit /\ [][RouteNext]_vars

(***************************************************************************)
(* The workflow modal of the upload page: src/app/upload/WorkflowModal.tsx *)
(* lines 30-77 (getStepStatus) and lines 438-593 of the same file          *)
(* (handleSubmit of the upload page, which drives the modal's step).       *)
(***************************************************************************)
\* lines 42-68: the steps the modal lists
WorkflowSteps == <<"extracting", "summary", "thinking", "writing", "finalizing">>

\* Array.prototype.findIndex over the ids of the listed steps: the 0-based
\* index of the first match, -1 when there is none
findIndex(ids, id) ==
  IF \E i \in DOMAIN ids : ids[i] = id
    THEN (CHOOSE i \in DOMAIN ids :
            ids[i] = id /\ \A j \in 1..(i - 1) : ids[j] # id) - 1
    ELSE 0 - 1

\* lines 70-77
getStepStatus(stepId, currentStep) ==
  LET stepIndex == findIndex(WorkflowSteps, stepId)
      currentIndex == findIndex(WorkflowSteps, currentStep)
  IN  IF stepIndex < currentIndex THEN "done"
      ELSE IF stepIndex = currentIndex THEN "active"
      ELSE "pending"

\* lines 40 and 101-104: nothing is rendered while the modal is closed,
\* otherwise every listed step is drawn with its status
Render(isOpen, currentStep) ==
  [isOpen |-> isOpen,
   currentStep |-> currentStep,
   status |-> IF isOpen
                THEN [i \in DOMAIN WorkflowSteps |->
                        getStepStatus(WorkflowSteps[i], currentStep)]
                ELSE <<>>]

\* the page's state after a batch of updates, and the modal re-rendered
\* with isOpen={loading} currentStep={workflowStep} (lines 1170-1178)
SetStep(isLoading, step, position) ==
  /\ loading' = isLoading
  /\ workflowStep' = step
  /\ submitPc' = position
  /\ renders' = Append(renders, Render(isLoading, step))

\* lines 586-592: the catch block closes the modal and resets the step
SubmitFails == SetStep(FALSE, "extracting", "idle")

StepInit ==
  /\ testCases = <<>>
  /\ pc = "idle"
  /\ refineTargetId = ""
  /\ existingTestCasesForPrompt = AsList(<<>>)
  /\ sentPrompt = NoPrompt
  /\ generatedText = NoText
  /\ cleanedText = NoText
  /\ parseAttempts = 0
  /\ parsed = <<>>
  /\ calls = <<>>
  /\ parseLog = <<>>
  /\ outcome = NoOutcome
  /\ nIn = NoNormInput
  /\ nOut = NoNormOutput
  /\ config = NoConfig
  /\ dispatcher = "none"
  /\ ProviderNew
  /\ TextNew
  /\ NavNew
  /\ LiveNew
  /\ TokNew
  /\ RouteNew
  /\ StepNew

\* lines 438-459: the form is submitted; without a file the handler returns
\* at once, otherwise the extraction request is sent
HandleSubmit ==
  /\ submitPc = "idle"
  /\ ~loading
  /\ submits < MaxSubmits
  /\ submits' = submits + 1
  /\ \E file \in BOOLEAN :
       IF file THEN SetStep(TRUE, "extracting", "extract")
               ELSE SetStep(FALSE, "extracting", "idle")
  /\ UNCHANGED <<pageVars, normVars, providerVars, textVars, liveVars, navVars, tokVars, routeVars>>

\* lines 460-484: the extraction answers
ExtractReturns ==
  /\ submitPc = "extract"
  /\ \E ok \in BOOLEAN :
       IF ok THEN SetStep(TRUE, "summary", "summary") ELSE SubmitFails
  /\ UNCHANGED <<submits, pageVars, normVars, providerVars, textVars, liveVars, navVars, tokVars, routeVars>>

\* lines 485-520: the summary call answers (or the provider is refused)
SummaryReturns ==
  /\ submitPc = "summary"
  /\ \E ok \in BOOLEAN :
       IF ok THEN SetStep(TRUE, "thinking", "thinking") ELSE SubmitFails
  /\ UNCHANGED <<submits, pageVars, normVars, providerVars, textVars, liveVars, navVars, tokVars, routeVars>>

\* lines 520-524: the pause of the thinking step elapses
ThinkingElapses ==
  /\ submitPc = "thinking"
  /\ SetStep(TRUE, "writing", "writing")
  /\ UNCHANGED <<submits, pageVars, normVars, providerVars, textVars, liveVars, navVars, tokVars, routeVars>>

\* lines 525-564: the generation call answers and its text is parsed
WritingReturns ==
  /\ submitPc = "writing"
  /\ \E ok \in BOOLEAN :
       IF ok THEN SetStep(TRUE, "finalizing", "finalizing") ELSE SubmitFails
  /\ UNCHANGED <<submits, pageVars, normVars, providerVars, textVars, liveVars, navVars, tokVars, routeVars>>

\* lines 564-568: the pause of the finalizing step elapses; the modal
\* stays open on the step "complete"
FinalizingElapses ==
  /\ submitPc = "finalizing"
  /\ SetStep(TRUE, "complete", "complete")
  /\ UNCHANGED <<submits, pageVars, normVars, providerVars, textVars, liveVars, navVars, tokVars, routeVars>>

StepNext ==
  \/ HandleSubmit
  \/ ExtractReturns
  \/ SummaryReturns
  \/ ThinkingElapses
  \/ WritingReturns
  \/ FinalizingElapses

StepSpec == StepInit /\ [][StepNext]_vars

(***************************************************************************)
(* The result page with its requests in flight: src/unnamed/part_007       *)
(* lines 398-420 (mount), 500-568 (refine), 570-603 (inline edit), 627-690 *)
(* (add more) and 1126-1235 (the two dialogs).  A record is reduced to its *)
(* identifier and one token naming the update that wrote its content.      *)
(***************************************************************************)
PageRecord(testId, content) == [testId |-> testId, content |-> content]

\* the sets the page can load from session storage when it is mounted
StoredSets ==
  {<<PageRecord("TC-001", "generated")>>,
   <<PageRecord("TC-001", "generated"), PageRecord("TC-002", "generated")>>}

\* testCases.map((tc) => tc.testId === id ? updated : tc), lines 555-557
\* and 591-599
MapReplace(list, id, updated) ==
  [i \in DOMAIN list |-> IF list[i].testId = id THEN updated ELSE list[i]]

\* the record the refine route answers with for the record it was sent
RefinedPageRecord(id) == PageRecord(id, "refined")

\* lines 591-599: the record with the fields of the edit form written over it
EditedPageRecord(id) == PageRecord(id, "edited")

\* the records the add-more route answers with for the set it was sent
AddedPageRecords(existing) ==
  <<PageRecord("TC-" \o padStart(ToString(Len(existing) + 1), 3, "0"), "added")>>

\* setTestCases(updatedList); sessionStorage.setItem("testCases", ...)
StoreUpdatedList(updatedList) ==
  /\ pageTestCases' = updatedList
  /\ sessionTestCases' = updatedList

\* a dialog is a fixed overlay over the whole page (lines 1127 and 1172):
\* the buttons of the page can be pressed only when none is open
PageReachable == dialog = "none"

LiveInit ==
  /\ testCases = <<>>
  /\ pc = "idle"
  /\ refineTargetId = ""
  /\ existingTestCasesForPrompt = AsList(<<>>)
  /\ sentPrompt = NoPrompt
  /\ generatedText = NoText
  /\ cleanedText = NoText
  /\ parseAttempts = 0
  /\ parsed = <<>>
  /\ calls = <<>>
  /\ parseLog = <<>>
  /\ outcome = NoOutcome
  /\ nIn = NoNormInput
  /\ nOut = NoNormOutput
  /\ config = NoConfig
  /\ dispatcher = "none"
  /\ ProviderNew
  /\ TextNew
  /\ NavNew
  /\ TokNew
  /\ RouteNew
  /\ StepNew
  /\ \E stored \in StoredSets :
       /\ pageTestCases = stored
       /\ sessionTestCases = stored
       /\ serialTestCases = stored
  /\ dialog = "none"
  /\ dialogTargetId = ""
  /\ refineInFlight = NoFlight
  /\ addMoreInFlight = NoFlight
  /\ editingRecord = ""
  /\ pageOps = 0

\* lines 500-505
OpenRefineDialog ==
  /\ PageReachable
  /\ \E i \in DOMAIN pageTestCases :
       dialogTargetId' = pageTestCases[i].testId
  /\ dialog' = "refine"
  /\ UNCHANGED <<pageTestCases, sessionTestCases, refineInFlight, addMoreInFlight, editingRecord, serialTestCases, pageOps,
               pageVars, normVars, providerVars, textVars, navVars, tokVars, routeVars, stepVars>>

\* lines 507-527 and 1148-1150: the Refine button, disabled while
\* refineLoading; the handler captures testCases and refineTargetId of the
\* rendering it was created in and awaits the response
HandleRefine ==
  /\ dialog = "refine"
  /\ ~refineInFlight.loading
  /\ dialogTargetId # ""
  /\ \E i \in DOMAIN pageTestCases : pageTestCases[i].testId = dialogTargetId
  /\ pageOps < MaxPageOps
  /\ pageOps' = pageOps + 1
  /\ refineInFlight' = [loading |-> TRUE, testCases |-> pageTestCases,
                        refineTargetId |-> dialogTargetId]
  /\ UNCHANGED <<pageTestCases, sessionTestCases, dialog, dialogTargetId, addMoreInFlight, editingRecord, serialTestCases,
               pageVars, normVars, providerVars, textVars, navVars, tokVars, routeVars, stepVars>>

\* lines 1155-1165: Cancel of the refine dialog, enabled also while the
\* request is in flight
CancelRefineDialog ==
  /\ dialog = "refine"
  /\ dialog' = "none"
  /\ UNCHANGED <<pageTestCases, sessionTestCases, dialogTargetId, refineInFlight, addMoreInFlight, editingRecord, serialTestCases, pageOps,
               pageVars, normVars, providerVars, textVars, navVars, tokVars, routeVars, stepVars>>

\* lines 541-567: the response of the refine request arrives; on success
\* the list is computed from the captured testCases and refineTargetId
RefineResponds ==
  /\ refineInFlight.loading
  /\ refineInFlight' = NoFlight
  /\ \/ /\ LET updated == RefinedPageRecord(refineInFlight.refineTargetId)
            IN  /\ StoreUpdatedList(MapReplace(refineInFlight.testCases,
                                               refineInFlight.refineTargetId, updated))
                /\ serialTestCases' = MapReplace(serialTestCases,
                                                 refineInFlight.refineTargetId, updated)
        /\ dialog' = IF dialog = "refine" THEN "none" ELSE dialog
        /\ dialogTargetId' = ""
     \/ UNCHANGED <<pageTestCases, sessionTestCases, serialTestCases, dialog, dialogTargetId>>
  /\ UNCHANGED <<addMoreInFlight, editingRecord, pageOps,
               pageVars, normVars, providerVars, textVars, navVars, tokVars, routeVars, stepVars>>

\* lines 570-581
StartEdit ==
  /\ PageReachable
  /\ editingRecord = ""
  /\ \E i \in DOMAIN pageTestCases :
       editingRecord' = pageTestCases[i].testId
  /\ UNCHANGED <<pageTestCases, sessionTestCases, dialog, dialogTargetId, refineInFlight, addMoreInFlight, serialTestCases, pageOps,
               pageVars, normVars, providerVars, textVars, navVars, tokVars, routeVars, stepVars>>

\* lines 583-586
CancelEdit ==
  /\ PageReachable
  /\ editingRecord # ""
  /\ editingRecord' = ""
  /\ UNCHANGED <<pageTestCases, sessionTestCases, dialog, dialogTargetId, refineInFlight, addMoreInFlight, serialTestCases, pageOps,
               pageVars, normVars, providerVars, textVars, navVars, tokVars, routeVars, stepVars>>

\* lines 588-603: synchronous, on the testCases of the current rendering
SaveEditLive ==
  /\ PageReachable
  /\ editingRecord # ""
  /\ pageOps < MaxPageOps
  /\ pageOps' = pageOps + 1
  /\ LET updated == EditedPageRecord(editingRecord)
     IN  /\ StoreUpdatedList(MapReplace(pageTestCases, editingRecord, updated))
         /\ serialTestCases' = MapReplace(serialTestCases, editingRecord, updated)
  /\ editingRecord' = ""
  /\ UNCHANGED <<dialog, dialogTargetId, refineInFlight, addMoreInFlight,
               pageVars, normVars, providerVars, textVars, navVars, tokVars, routeVars, stepVars>>

\* lines 627-632
OpenAddMoreDialog ==
  /\ PageReachable
  /\ dialog' = "addMore"
  /\ UNCHANGED <<pageTestCases, sessionTestCases, dialogTargetId, refineInFlight, addMoreInFlight, editingRecord, serialTestCases, pageOps,
               pageVars, normVars, providerVars, textVars, navVars, tokVars, routeVars, stepVars>>

\* lines 634-662 and 1214-1216: the Add Test Cases button, disabled while
\* addMoreLoading; the handler captures testCases and awaits the response
HandleAddMore ==
  /\ dialog = "addMore"
  /\ ~addMoreInFlight.loading
  /\ Len(pageTestCases) < MaxSet
  /\ pageOps < MaxPageOps
  /\ pageOps' = pageOps + 1
  /\ addMoreInFlight' = [loading |-> TRUE, testCases |-> pageTestCases,
                         refineTargetId |-> ""]
  /\ UNCHANGED <<pageTestCases, sessionTestCases, dialog, dialogTargetId, refineInFlight, editingRecord, serialTestCases,
               pageVars, normVars, providerVars, textVars, navVars, tokVars, routeVars, stepVars>>

\* lines 1221-1232: Cancel of the add-more dialog, enabled also while the
\* request is in flight
CancelAddMoreDialog ==
  /\ dialog = "addMore"
  /\ dialog' = "none"
  /\ UNCHANGED <<pageTestCases, sessionTestCases, dialogTargetId, refineInFlight, addMoreInFlight, editingRecord, serialTestCases, pageOps,
               pageVars, normVars, providerVars, textVars, navVars, tokVars, routeVars, stepVars>>

\* lines 664-689: the response of the add-more request arrives; on success
\* the new records are appended to the captured testCases
AddMoreResponds ==
  /\ addMoreInFlight.loading
  /\ addMoreInFlight' = NoFlight
  /\ \/ /\ LET newTestCases == AddedPageRecords(addMoreInFlight.testCases)
            IN  /\ StoreUpdatedList(addMoreInFlight.testCases \o newTestCases)
                /\ serialTestCases' = serialTestCases \o newTestCases
        /\ dialog' = IF dialog = "addMore" THEN "none" ELSE dialog
     \/ UNCHANGED <<pageTestCases, sessionTestCases, serialTestCases, dialog>>
  /\ UNCHANGED <<dialogTargetId, refineInFlight, editingRecord, pageOps,
               pageVars, normVars, providerVars, textVars, navVars, tokVars, routeVars, stepVars>>

LiveNext ==
  \/ OpenRefineDialog
  \/ HandleRefine
  \/ CancelRefineDialog
  \/ RefineResponds
  \/ StartEdit
  \/ CancelEdit
  \/ SaveEditLive
  \/ OpenAddMoreDialog
  \/ HandleAddMore
  \/ CancelAddMoreDialog
  \/ AddMoreResponds

LiveSpec == LiveInit /\ [][LiveNext]_vars

(***************************************************************************)
(* Properties of normalizeTestCase (checked under NormSpec).               *)
(***************************************************************************)
Present(tc, f) == f \in DOMAIN tc /\ tc[f] # ""

\* the least k >= from whose identifier is not in ids
RECURSIVE LeastFree(_, _)
LeastFree(from, ids) ==
  IF FormatTestId(from) \in ids THEN LeastFree(from + 1, ids) ELSE from

\* C7: with a claimed set, an absent or already claimed testId is replaced by
\* TC-{k}, 3-digit zero-padded, for the least k >= p+1 that is not claimed
\* (claimed {TC-001, TC-002}, p = 2, no testId: TC-003); a supplied testId
\* that is not claimed is kept; the assigned identifier is added to the set.
C7_ProbeAssignsLeastFree ==
  (nOut.done /\ nIn.existingIds.supplied) =>
    LET claimed == nIn.existingIds.ids
        p == nIn.index
        k == LeastFree(p + 1, claimed)
    IN  /\ IF Present(nIn.tc, "testId") /\ nIn.tc.testId \notin claimed
             THEN nOut.tc.testId = nIn.tc.testId
             ELSE /\ nOut.tc.testId = "TC-" \o padStart(ToString(k), 3, "0")
                  /\ k >= p + 1
                  /\ k <= p + 1 + Cardinality(claimed)
                  /\ nOut.tc.testId \notin claimed
        /\ nOut.existingIds.ids = claimed \cup {nOut.tc.testId}
        /\ (claimed = {"TC-001", "TC-002"} /\ p = 2 /\ ~Present(nIn.tc, "testId"))
             => nOut.tc.testId = "TC-003"

\* C7 witness: a supplied testId that is claimed, with the first candidate
\* claimed as well, so the probe advanced
C7_Witness ==
  /\ nOut.done
  /\ nIn.existingIds.supplied
  /\ Present(nIn.tc, "testId")
  /\ nIn.tc.testId \in nIn.existingIds.ids
  /\ FormatTestId(nIn.index + 1) \in nIn.existingIds.ids
  /\ nOut.tc.testId = FormatTestId(nIn.index + 2)

\* C8: normalizeTestCase returns all 8 fields for every subset of present
\* fields; an absent or empty field takes its default (testId TC-{index+1}
\* zero-padded, title "Test Case {index+1}", description / preconditions /
\* expectedResult "", steps the empty sequence when not a sequence, priority
\* Medium, type Functional) and a present non-empty field is returned
\* unchanged (a testId that is already claimed is replaced by a TC-prefixed
\* zero-padded identifier of a later position, as C7 states).
C8_NormalizerTotal ==
  nOut.done =>
    LET tc == nIn.tc
        out == nOut.tc
        n == ToString(nIn.index + 1)
        Kept(f, default) == out[f] = IF Present(tc, f) THEN tc[f] ELSE default
    IN  /\ DOMAIN out = TestCaseFields
        /\ Kept("title", "Test Case " \o n)
        /\ Kept("description", "")
        /\ Kept("preconditions", "")
        /\ Kept("expectedResult", "")
        /\ Kept("priority", "Medium")
        /\ Kept("type", "Functional")
        /\ out.steps = IF "steps" \in DOMAIN tc /\ tc.steps.isArray
                         THEN tc.steps.value ELSE <<>>
        /\ LET candidate == IF Present(tc, "testId") THEN tc.testId
                             ELSE "TC-" \o padStart(n, 3, "0")
               claimed == nIn.existingIds.ids
           IN  IF nIn.existingIds.supplied /\ candidate \in claimed
                 THEN \E k \in (nIn.index + 1)..(nIn.index + 1 + Cardinality(claimed)) :
                        out.testId = "TC-" \o padStart(ToString(k), 3, "0")
                 ELSE out.testId = candidate

\* C8 witness: the empty record was normalized to the documented defaults
C8_Witness ==
  /\ nOut.done
  /\ nIn.tc = <<>>
  /\ nIn.index = 0
  /\ ~nIn.existingIds.supplied
  /\ nOut.tc = [testId |-> "TC-001", title |-> "Test Case 1", description |-> "",
                preconditions |-> "", steps |-> <<>>, expectedResult |-> "",
                priority |-> "Medium", type |-> "Functional"]

\* C9: every normalized record has priority in {High, Medium, Low} and type in
\* {Functional, Negative, Edge}, whatever the backend output holds
C9_EnumsValid ==
  nOut.done =>
    /\ nOut.tc.priority \in TestCasePriority
    /\ nOut.tc.type \in TestCaseType

(***************************************************************************)
(* Properties of the routes and of the working set (checked under Spec).   *)
(***************************************************************************)
RefineInProgress == pc \in {"refine_call", "refine_correct"}

Finished(op) == pc = "done" /\ outcome.op = op

CountKind(kind) == Cardinality({i \in DOMAIN calls : calls[i].kind = kind})

\* the text is one well-formed JSON object and nothing else
WellFormedObject(text) ==
  text.form = "object" /\ text.wrap = "none" /\ text.defect = "none"

\* the refine route's parse step accepts the text
RefineAccepts(text) == parseTestCaseFromLLM(ExtractJsonObject(text)).ok

\* C1: in a refinement whose first parse failed and whose corrective call
\* returned a well-formed single object, the corrective content is what is
\* parsed next and the operation succeeds with the record taken from it
C1_CorrectionIsParsed ==
  (/\ Finished("refine")
   /\ Len(calls) = 2
   /\ calls[2].kind = "repair"
   /\ calls[2].ok
   /\ WellFormedObject(calls[2].content))
  => /\ outcome.status = "ok"
     /\ parseLog[Len(parseLog)] = calls[2].content
     /\ Len(outcome.records) = 1
     /\ LET fromCorrection ==
               RefinedRecord(calls[2].content.items[1], [testId |-> "kept"])
         IN  \A f \in TestCaseFields \ {"testId"} :
               outcome.records[1][f] = fromCorrection[f]

\* C2: one refinement makes at most 2 parse attempts and at most 1 repair
\* call; when the initial and the corrective output are both invalid it ends
\* in a parse failure after exactly 2 parse attempts and 2 backend calls; a
\* pass of the loop can always be taken, so the loop ends
C2_BoundedRepair ==
  /\ (RefineInProgress \/ Finished("refine")) =>
       /\ Len(parseLog) <= 2
       /\ CountKind("repair") <= 1
       /\ Len(calls) <= 2
       /\ parseAttempts <= 2
  /\ (pc = "refine_correct") => (parseAttempts = 1 /\ Len(parseLog) = 1)
  /\ (/\ Finished("refine")
      /\ Len(calls) = 2
      /\ calls[1].ok /\ ~RefineAccepts(calls[1].content)
      /\ calls[2].ok /\ ~RefineAccepts(calls[2].content))
     => /\ outcome.status = "parse_error"
        /\ Len(parseLog) = 2
        /\ CountKind("repair") = 1

\* C2 witness: both outputs invalid, failure after the second parse attempt
C2_Witness ==
  /\ Finished("refine")
  /\ outcome.status = "parse_error"
  /\ Len(calls) = 2
  /\ calls[1].ok /\ ~RefineAccepts(calls[1].content)
  /\ calls[2].ok /\ ~RefineAccepts(calls[2].content)
  /\ Len(parseLog) = 2

\* C3: a batch operation (initial generation, add more) returns a parse
\* failure only after 2 parse attempts, exactly one repair call having been
\* issued after the first failed parse
C3_BatchRepairsOnce ==
  ((Finished("generate") \/ Finished("addmore")) /\ outcome.status = "parse_error")
  => /\ Len(parseLog) = 2
     /\ CountKind("repair") = 1

\* the working set the add-more request was sent with
ExistingAtRequest ==
  IF outcome.op = "addmore"
    THEN SubSeq(testCases, 1, Len(testCases) - Len(outcome.records))
    ELSE <<>>

\* C4: the identifiers returned by normalizeTestCases are pairwise distinct
\* and none equals an identifier of the existing working set, whatever
\* testIds the backend supplied and whichever context was sent to it
C4_NewIdsUnique ==
  ((Finished("generate") \/ Finished("addmore")) /\ outcome.status = "ok")
  => LET new == outcome.records
     IN  /\ \A i, j \in DOMAIN new : new[i].testId = new[j].testId => i = j
         /\ IdsOf(new) \cap IdsOf(ExistingAtRequest) = {}
         /\ Len(new) = Len(generatedText.items)

\* C4 witness: the compressed context was sent and the backend answered two
\* records with the same testId, which the existing set already uses
C4_Witness ==
  /\ Finished("addmore")
  /\ outcome.status = "ok"
  /\ existingTestCasesForPrompt.isString
  /\ generatedText.items = <<ObjTc2, ObjTc2>>
  /\ "TC-002" \in IdsOf(ExistingAtRequest)

\* C5: the identifiers of the working set stay pairwise distinct across
\* generation, add more, refine and manual edit
C5_WorkingSetIdsDistinct ==
  \A i, j \in DOMAIN testCases :
    testCases[i].testId = testCases[j].testId => i = j

\* C6: a well-formed array of n objects without testId, generated into an
\* empty working set, yields n records with identifiers TC-001 .. TC-00n
C6_SequentialIds ==
  (/\ Finished("generate")
   /\ outcome.status = "ok"
   /\ \A i \in DOMAIN generatedText.items :
        DOMAIN generatedText.items[i] \subseteq TestCaseFields \ {"testId"})
  => /\ Len(outcome.records) = Len(generatedText.items)
     /\ \A i \in DOMAIN outcome.records :
          outcome.records[i].testId = "TC-" \o padStart(ToString(i), 3, "0")

\* C10: in add more, an estimate of the serialized existing set of at most
\* 5000 leads to no compression call and the whole set verbatim in the
\* prompt; a larger estimate leads to exactly one compression call, made
\* before the generation call, whose result is the context in the prompt
C10_ContextThreshold ==
  /\ pc = "addmore_call" =>
       LET json == JsonStringify(testCases)
           text == sentPrompt.user.existingTestCasesText
       IN  IF (Len(json) + 3) \div 4 <= 5000
             THEN /\ calls = <<>>
                  /\ ~existingTestCasesForPrompt.isString
                  /\ text = "EXISTING TEST CASES (" \o ToString(Len(testCases))
                            \o " total):\n" \o json \o
                            "\n\nIMPORTANT: Review these carefully and generate test cases that are DISTINCTLY different."
             ELSE /\ Len(calls) = 1
                  /\ calls[1].kind = "compress"
                  /\ existingTestCasesForPrompt.isString
                  /\ existingTestCasesForPrompt.text # json
                  /\ calls[1].ok =>
                       existingTestCasesForPrompt.text = Trim(calls[1].content)
                  /\ text = "EXISTING TEST CASES SUMMARY:\n" \o
                            existingTestCasesForPrompt.text \o
                            "\n\nIMPORTANT: The above is a summary. Generate test cases that are clearly different from what's described."
  /\ Finished("addmore") =>
       /\ CountKind("compress") <= 1
       /\ CountKind("generate") = 1
       /\ calls[Len(calls)].kind = "generate"
       /\ existingTestCasesForPrompt.isString <=> CountKind("compress") = 1

\* C10 witness: a set whose estimate exceeds the threshold was compressed and
\* the generation call followed
C10_Witness ==
  /\ Finished("addmore")
  /\ Len(calls) = 2
  /\ calls[1].kind = "compress" /\ calls[1].ok
  /\ calls[2].kind = "generate"
  /\ existingTestCasesForPrompt.text = Trim(calls[1].content)

\* the compression call of the invocation was made and failed
CompressionFailed ==
  /\ calls # <<>>
  /\ calls[1].kind = "compress"
  /\ ~calls[1].ok

\* C11 as stated: when the compression call of add more fails, the operation
\* does not abort and returns no error for that failure, the context becomes
\* the first 2000 characters of the serialized existing set, and the
\* generation call is still issued exactly once afterwards
C11_FallbackIsBarePrefix ==
  CompressionFailed =>
    /\ pc \in {"addmore_call", "done"}
    /\ existingTestCasesForPrompt.isString
    /\ existingTestCasesForPrompt.text = Substring0(JsonStringify(testCases), 2000)

\* C11 (amended): when the compression call of add more fails, the operation
\* does not abort and returns no error for that failure; the context becomes
\* the line "Summary of N existing test cases:", then the first 2000
\* characters of the serialized existing set, then "..."; and the generation
\* call is still issued exactly once afterwards
C11_CompressionFallback ==
  CompressionFailed =>
    LET existing == IF pc = "done" THEN ExistingAtRequest ELSE testCases
        json == JsonStringify(existing)
        context == "Summary of " \o ToString(Len(existing)) \o
                   " existing test cases:\n" \o SubSeq(json, 1, 2000) \o "..."
    IN  /\ pc \in {"addmore_call", "done"}
        /\ Len(json) > 2000
        /\ existingTestCasesForPrompt = AsString(context)
        /\ sentPrompt.user.existingTestCasesText =
             "EXISTING TEST CASES SUMMARY:\n" \o context \o
             "\n\nIMPORTANT: The above is a summary. Generate test cases that are clearly different from what's described."
        /\ pc = "addmore_call" => (Len(calls) = 1 /\ outcome = NoOutcome)
        /\ pc = "done" =>
             /\ outcome.op = "addmore"
             /\ Len(calls) = 2
             /\ calls[2].kind = "generate"
             /\ outcome.status = "backend_error" => ~calls[2].ok
             /\ outcome.status = "parse_error" => calls[2].ok
             /\ outcome.rawResponse = calls[2].content

\* C11 witness: the compression call failed and the operation still returned
\* new records from its one generation call
C11_Witness ==
  /\ CompressionFailed
  /\ Finished("addmore")
  /\ outcome.status = "ok"
  /\ outcome.records # <<>>
  /\ Len(calls) = 2

(***************************************************************************)
(* Properties of dispatch and of the adapters (checked under ProviderSpec).*)
(***************************************************************************)
\* the configuration has no usable value for the field
Lacks(f) == f \notin DOMAIN config \/ config[f] = ""

\* dispatch has not got past validation: no adapter, no request, no generate
NothingIssued ==
  /\ ppc \in {"new", "config_error"}
  /\ providerInstance = NoProvider
  /\ requests = <<>>
  /\ invocations = 0

ConfigurationError ==
  /\ genResult.status = "config_error"
  /\ genResult.error # ""

\* C12 as stated: for each backend kind, a configuration that lacks any one
\* of the kind's required fields (openai: apiKey, model; azure: apiKey,
\* endpoint, deployment, apiVersion; ollama: model, baseUrl; gemini: apiKey,
\* model) makes dispatch fail with a configuration error, and no network
\* request is issued in that invocation
C12_TableFieldsRequired ==
  LET required ==
        [k \in ProviderType |->
           CASE k = "openai" -> {"apiKey", "model"}
             [] k = "azure" -> {"apiKey", "endpoint", "deployment", "apiVersion"}
             [] k = "ollama" -> {"model", "baseUrl"}
             [] k = "gemini" -> {"apiKey", "model"}]
  IN  (config.provider \in ProviderType /\ \E f \in required[config.provider] : Lacks(f))
      => /\ NothingIssued
         /\ ppc = "config_error" => ConfigurationError

\* C12 (amended): a configuration that lacks apiKey (openai, gemini), any of
\* apiKey / endpoint / deployment / apiVersion (azure), or baseUrl (ollama,
\* client-side dispatcher only) makes dispatch fail with a configuration
\* error, and no network request is issued in that invocation; the
\* client-side dispatcher fails every azure configuration in the same way.
\* An absent model is no error: openai takes gpt-4o-mini, ollama llama3.1
\* and gemini gemini-1.5-flash-latest, and the server-side factory takes
\* http://localhost:11434 for an absent ollama baseUrl.
C12_RequiredFieldsFailFast ==
  LET k == config.provider
      server == dispatcher = "createProvider"
      required ==
        CASE k \in {"openai", "gemini"} -> {"apiKey"}
          [] k = "azure" -> {"apiKey", "endpoint", "deployment", "apiVersion"}
          [] k = "ollama" -> IF server THEN {} ELSE {"baseUrl"}
          [] OTHER -> {}
      rejected == (\E f \in required : Lacks(f)) \/ (k = "azure" /\ ~server)
      defaultModel ==
        CASE k = "openai" -> "gpt-4o-mini"
          [] k = "ollama" -> "llama3.1"
          [] k = "gemini" -> "gemini-1.5-flash-latest"
          [] OTHER -> ""
  IN  k \in ProviderType =>
        /\ rejected => (NothingIssued /\ (ppc = "config_error" => ConfigurationError))
        /\ ~rejected =>
             /\ ppc # "config_error"
             /\ genResult.status # "config_error"
             /\ (server /\ ppc # "new") => providerInstance.kind = k
             /\ ("model" \notin DOMAIN config /\ k # "azure") =>
                  /\ providerInstance.kind = k => providerInstance.model = defaultModel
                  /\ (~server /\ requests # <<>>) => requests[1].model = defaultModel
             /\ (k = "ollama" /\ "baseUrl" \notin DOMAIN config
                 /\ providerInstance.kind = k)
                  => providerInstance.baseUrl = "http://localhost:11434"

\* C12 witness: an azure configuration with everything but apiVersion was
\* refused by the server-side factory
C12_Witness ==
  /\ dispatcher = "createProvider"
  /\ config.provider = "azure"
  /\ ~Lacks("apiKey") /\ ~Lacks("endpoint") /\ ~Lacks("deployment")
  /\ Lacks("apiVersion")
  /\ ppc = "config_error"
  /\ ConfigurationError
  /\ requests = <<>>

\* a generate invocation has returned or thrown
GenerateReturned == genResult.status \in {"ok", "backend_error"}

\* C13: every invocation of generate issues exactly one outbound network
\* request, for every backend kind and including the first invocation on a
\* newly created adapter; a failed request is not retried
C13_OneRequestPerGenerate ==
  /\ Len(requests) <= 1
  /\ GenerateReturned => Len(requests) = 1

\* C14: when the primary generate call of an operation (summary, initial
\* generation, add more, refine) fails, the operation returns a failure
\* value at once: no further backend call is issued in that invocation and
\* no record set or summary is returned
C14_PrimaryFailureSurfaces ==
  \A i \in DOMAIN calls :
    (calls[i].kind = "generate" /\ ~calls[i].ok) =>
      /\ i = Len(calls)
      /\ pc = "done"
      /\ outcome.op \in {"summary", "generate", "addmore", "refine"}
      /\ outcome.status = "backend_error"
      /\ outcome.error # ""
      /\ outcome.records = <<>>
      /\ outcome.summary = ""
      /\ parseLog = <<>>

\* C14 witness: add more compressed its context and the generation call that
\* followed failed
C14_Witness ==
  /\ Finished("addmore")
  /\ Len(calls) = 2
  /\ calls[1].kind = "compress" /\ calls[1].ok
  /\ calls[2].kind = "generate" /\ ~calls[2].ok
  /\ outcome.status = "backend_error"

\* C15: in a refinement, a transport failure of the corrective call is
\* returned as a backend failure, not as a parse failure; a parse failure is
\* returned only when 2 parse attempts have been made
C15_RepairFailureIsBackendError ==
  Finished("refine") =>
    /\ (\E i \in DOMAIN calls : calls[i].kind = "repair" /\ ~calls[i].ok)
         => outcome.status = "backend_error"
    /\ outcome.status = "parse_error" => (Len(parseLog) = 2 /\ parseAttempts = 2)

\* the text is syntactically valid JSON as it stands
ValidJson(text) ==
  text.wrap = "none" /\ text.defect = "none" /\ text.form \in {"object", "array", "scalar"}

\* C16: in a refinement, a backend output that is valid JSON but not a single
\* object (any array, whatever its elements, or a scalar) is a parse failure
\* and never yields a refined record
C16_NonObjectRejected ==
  (/\ RefineInProgress \/ Finished("refine")
   /\ calls # <<>>
   /\ calls[1].ok
   /\ ValidJson(calls[1].content)
   /\ calls[1].content.form # "object")
  => /\ parseAttempts >= 1
     /\ (Len(calls) = 1 /\ pc = "done") => (outcome.status # "ok" /\ outcome.records = <<>>)

\* the array element is a JSON object
IsObject(element) == "typeof" \notin DOMAIN element

\* C17: in a batch operation (initial generation, add more), a backend
\* output that is valid JSON but not an array whose elements are all objects
\* (a single object, a scalar, an array with a non-object element) is a
\* parse failure and yields no records
C17_NonObjectArrayRejected ==
  (/\ Finished("generate") \/ Finished("addmore")
   /\ calls[Len(calls)].ok
   /\ ValidJson(calls[Len(calls)].content)
   /\ ~(/\ calls[Len(calls)].content.form = "array"
        /\ \A i \in DOMAIN calls[Len(calls)].content.items :
             IsObject(calls[Len(calls)].content.items[i])))
  => /\ outcome.status = "parse_error"
     /\ outcome.records = <<>>

\* the backend texts received in the invocation, in order (the summary of a
\* compression call is not an output that is parsed)
ReceivedTexts ==
  LET Received(c) == c.ok /\ c.kind \in {"generate", "repair"}
      received == SelectSeq(calls, Received)
  IN  [i \in DOMAIN received |-> received[i].content]

AllCommas(t) == \A i \in DOMAIN t.records : t.comma[i]

FencedValidArray(t) == t.fenced /\ t.closed /\ ~t.bare /\ AllCommas(t)

\* C19: a valid JSON array between a leading and a trailing fence marker,
\* with or without the json tag in any letter case and with whitespace
\* around the markers, parses on the first attempt, gives the records the
\* array gives without the fence, and no repair call is made.
C19_FencedArrayParses ==
  (textOut.done /\ FencedValidArray(llmText)) =>
    LET unwrapped == ParseTestCasesText(Body(llmText))
    IN  /\ textOut.ok
        /\ textOut.parseAttempts = 1
        /\ textOut.repairCalls = 0
        /\ unwrapped.ok
        /\ unwrapped.value = llmText.records
        /\ textOut.records = normalizeTestCases(unwrapped.value, <<>>)

C19_Witness ==
  /\ textOut.done
  /\ FencedValidArray(llmText)
  /\ llmText.tag = "JSON"
  /\ llmText.lead # ""
  /\ llmText.afterOpen # ""
  /\ llmText.beforeClose # ""
  /\ llmText.trail # ""
  /\ Len(llmText.records) = 2
  /\ textOut.ok
  /\ Len(textOut.records) = 2

\* the text the repair is to give: every object that lacks the comma gets
\* `, ` between its "preconditions" value and its "steps" key
RepairedBody(t) ==
  RenderBody(t.records, [i \in DOMAIN t.records |-> TRUE],
             [i \in DOMAIN t.records |-> IF t.comma[i] THEN t.gap ELSE " "],
             t.bare)

\* C20: the repair step puts a comma between every "preconditions" string
\* value and a "steps" key that follows it with no comma, keeps the value,
\* and leaves every other character of the text as it was (so a text
\* without the defect is unchanged).
C20_MissingCommaRepaired ==
  textOut.done =>
    LET body == Body(llmText)
        at == IndexOf(textOut.unfenced, body)
    IN  textOut.cleaned =
          SubSeq(textOut.unfenced, 1, at - 1) \o RepairedBody(llmText) \o
          SubSeq(textOut.unfenced, at + Len(body), Len(textOut.unfenced))


(***************************************************************************)
(* Properties of the working set across a refine (checked under Spec).     *)
(***************************************************************************)
\* the step in which the page receives the refined record and updates its set
RefineSucceeds ==
  /\ pc # "done"
  /\ pc' = "done"
  /\ outcome'.op = "refine"
  /\ outcome'.status = "ok"

\* C21: a successful refine replaces the one record whose identifier was
\* selected by the regenerated record; every other record, the order and the
\* size of the working set stay as they were.
C21_RefineReplacesOne ==
  [][RefineSucceeds =>
       \E i \in DOMAIN testCases :
         /\ testCases[i].testId = refineTargetId
         /\ testCases' = [testCases EXCEPT ![i] = outcome'.records[1]]]_vars


(***************************************************************************)
(* Properties of the navigation store (checked under NavSpec).             *)
(***************************************************************************)
\* what a call without argument returns when nothing was called before it
FreshResult(op) ==
  IF op = "getAndClear" THEN getAndClearNavigationState(null).result
  ELSE hasNavigationState(null).result

\* C22: no module-level variable keeps a provider configuration once a call
\* has returned, and a call returns what it returns in a fresh module,
\* whatever calls and hand-offs came before it.
C22_NoRetainedConfiguration ==
  /\ navigationState = null
  /\ \A k \in DOMAIN navLog :
       navLog[k].op \in {"getAndClear", "has"} =>
         navLog[k].result = FreshResult(navLog[k].op)


\* the configuration handed over and not yet read when call k is made: the
\* argument of the last set before k if no getAndClear came after that set,
\* null otherwise
Pending(k) ==
  LET writes == {j \in 1..(k - 1) : navLog[j].op \in {"set", "getAndClear"}}
  IN  IF writes = {} THEN null
      ELSE LET last == CHOOSE j \in writes : \A h \in writes : h <= j
           IN  IF navLog[last].op = "set" THEN navLog[last].arg ELSE null

StoredBefore(k) == IF k = 1 THEN null ELSE navLog[k - 1].stored

\* C28: the store is read once.  The first getAndClearNavigationState after
\* setNavigationState(c) returns c and every later one returns null until
\* the next set; hasNavigationState returns true exactly when a set has
\* happened with no getAndClear after it, and leaves the stored state as it
\* was.
C28_OneTimeRead ==
  \A k \in DOMAIN navLog :
    /\ navLog[k].op = "getAndClear" => navLog[k].result = Pending(k)
    /\ navLog[k].op = "has" =>
         /\ navLog[k].result = (Pending(k) # null)
         /\ navLog[k].stored = StoredBefore(k)

C28_Witness ==
  /\ Len(navLog) = 4
  /\ navLog[1].op = "set"
  /\ navLog[2].op = "has" /\ navLog[2].result = TRUE
  /\ navLog[3].op = "getAndClear" /\ navLog[3].result = navLog[1].arg
  /\ navLog[4].op = "getAndClear" /\ navLog[4].result = null
  /\ navigationState = null


(***************************************************************************)
(* Properties of estimateTokens (checked under TokSpec).                   *)
(***************************************************************************)
\* the least n with 4 * n >= length
CeilQuarter(length) ==
  CHOOSE n \in 0..length : 4 * n >= length /\ \A m \in 0..(n - 1) : 4 * m < length

\* C23: estimateTokens gives 0 for the empty text and ceil(length / 4) for
\* every other text, so a text that is not longer than another does not get
\* a larger estimate.
C23_EstimateMonotone ==
  tokOut.done =>
    /\ tokIn.a = "" => tokOut.a = 0
    /\ tokOut.a = CeilQuarter(Len(tokIn.a))
    /\ tokOut.b = CeilQuarter(Len(tokIn.b))
    /\ Len(tokIn.a) <= Len(tokIn.b) => tokOut.a <= tokOut.b

C23_Witness ==
  /\ tokOut.done
  /\ Len(tokIn.a) = 5
  /\ Len(tokIn.b) = 8
  /\ tokOut.a = 2
  /\ tokOut.b = 2


ValidationFails ==
  LET body == request.body
  IN  CASE request.op \in {"generate-summary", "generate-cases"} ->
             Blank(body, "text") \/ Missing(body, "provider")
        [] request.op = "add-more-cases" ->
             \/ Blank(body, "summary") \/ Blank(body, "followUpPrompt")
             \/ Missing(body, "provider")
             \/ "existingTestCases" \notin DOMAIN body
             \/ ~body.existingTestCases.isArray
             \/ Len(body.existingTestCases.value) = 0
        [] request.op = "refine-test-case" ->
             \/ Blank(body, "summary") \/ Blank(body, "followup")
             \/ Missing(body, "provider")
             \/ "testCase" \notin DOMAIN body
        [] OTHER -> FALSE

CreationFails == ~createProvider(ProviderArgument(request.body)).ok

RouteActed == routeResponse.done \/ routeCalls > 0

\* C26: when the validation of the request or the creation of the provider
\* fails, the route answers with a client error and has issued no generate
\* call.
C26_InvalidRequestIssuesNoCall ==
  (RouteActed /\ (ValidationFails \/ CreationFails)) =>
    /\ routeResponse.done
    /\ routeResponse.status \in 400..499
    /\ routeCalls = 0

C26_Witness ==
  /\ request.op = "add-more-cases"
  /\ ~Blank(request.body, "summary")
  /\ ~Blank(request.body, "followUpPrompt")
  /\ "existingTestCases" \in DOMAIN request.body
  /\ request.body.existingTestCases = [isArray |-> TRUE, value |-> <<>>]
  /\ "provider" \in DOMAIN request.body
  /\ request.body.provider = "ollama"
  /\ routeResponse.done
  /\ routeResponse.status = 400
  /\ routeCalls = 0


\* the compression call of the current invocation was made
CompressionCalled == calls # <<>> /\ calls[1].kind = "compress"

\* C27: whenever add more makes the compression call, the serialization of
\* the existing set is longer than 20000 characters, the text handed to the
\* call is the first 10000 characters of it followed by "...", and the
\* generation prompt of the invocation carries only the summary (the trimmed
\* answer, or the fallback with the first 2000 characters), so no character
\* beyond the prefix reaches the backend
C27_CompressionSeesPrefix ==
  CompressionCalled =>
    LET existing == IF pc = "done" THEN ExistingAtRequest ELSE testCases
        json == JsonStringify(existing)
    IN  /\ Len(json) > 20000
        /\ calls[1].userPrompt =
             "Summarize these test cases to help prevent generating duplicates:\n\n"
             \o SubSeq(json, 1, 10000) \o "..."
        /\ existingTestCasesForPrompt.isString
        /\ existingTestCasesForPrompt.text \in
             {Trim(calls[1].content),
              "Summary of " \o ToString(Len(existing)) \o
                " existing test cases:\n" \o SubSeq(json, 1, 2000) \o "..."}
        /\ sentPrompt.user.existingTestCasesText =
             "EXISTING TEST CASES SUMMARY:\n" \o existingTestCasesForPrompt.text \o
             "\n\nIMPORTANT: The above is a summary. Generate test cases that are clearly different from what's described."
        /\ \A k \in 2..Len(calls) : calls[k].kind # "compress"

\* C27 witness: a set of several records was compressed and the generation
\* call of the invocation was made after it
C27_Witness ==
  /\ CompressionCalled
  /\ pc = "done"
  /\ Len(ExistingAtRequest) >= 2
  /\ Len(calls) >= 2
  /\ calls[2].kind = "generate"


\* the position of a step in the order extracting, summary, thinking,
\* writing, finalizing, complete
StepOrder(step) ==
  CASE step = "extracting" -> 1
    [] step = "summary" -> 2
    [] step = "thinking" -> 3
    [] step = "writing" -> 4
    [] step = "finalizing" -> 5
    [] step = "complete" -> 6

\* C29: in every rendering of the open workflow modal a listed step is done
\* iff it precedes the current step in the order extracting, summary,
\* thinking, writing, finalizing, complete, active iff it is the current
\* step and pending otherwise; on the step complete all five are done
C29_StepStatusByOrder ==
  \A k \in DOMAIN renders :
    renders[k].isOpen =>
      \A i \in DOMAIN WorkflowSteps :
        renders[k].status[i] =
          IF StepOrder(WorkflowSteps[i]) < StepOrder(renders[k].currentStep)
            THEN "done"
          ELSE IF WorkflowSteps[i] = renders[k].currentStep THEN "active"
          ELSE "pending"


\* C25: the result page serializes the operations on its working set: the
\* working set and its copy in session storage are what the completed
\* updates give when applied one after another, so an edit or a refine
\* that completed while another request was in flight is still there when
\* that request completes
C25_NoLostUpdate ==
  /\ pageTestCases = serialTestCases
  /\ sessionTestCases = serialTestCases

====
